---- MODULE Spec2Model ----
(***************************************************************************)
(* Model of the Jira Sprint Dashboard client script (src/script.js).       *)
(*                                                                         *)
(* The state is the script's `state` object, the DOM controls it reads and *)
(* writes (view selector, sprint/user selects, the controls' display, the  *)
(* chart container), the Chart instances it has constructed, the console   *)
(* output of the last handler and the registered change listeners.         *)
(* Every function of the script is an operator from a "world" record to a  *)
(* world record; an exception is the field `threw`, which makes the rest   *)
(* of the enclosing function a no-op until a catch clears it.              *)
(***************************************************************************)
EXTENDS Integers, Sequences, FiniteSets, TLC

VARIABLES pc, arg, fullData, viewValue, sprintControls, sprintOptions,
          sprintSelected, userOptions, userSelected, instances, burnupChart,
          log, listeners, container, threw, locals

vars == <<pc, arg, fullData, viewValue, sprintControls, sprintOptions,
          sprintSelected, userOptions, userSelected, instances, burnupChart,
          log, listeners, container, threw, locals>>

(***************************************************************************)
(* Bounds of the model.                                                    *)
(***************************************************************************)
MaxSprints == 2
MaxNames == 3
MaxDates == 8
MaxSeriesLen == 2
MaxUsers == 2

(***************************************************************************)
(* JSON / JavaScript values.                                              *)
(***************************************************************************)
Undef == [tag |-> "undefined"]
JNull == [tag |-> "null"]
Bool(b) == [tag |-> "boolean", val |-> b]
Num(n) == [tag |-> "number", num |-> n, den |-> 1]
Arr(s) == [tag |-> "array", v |-> s]

\* an object: its own properties in the order in which the document writes
\* them, each the characters of its name and its value
Entry(k, v) == [key |-> k, value |-> v]
Dataset(entries) == [tag |-> "object", entries |-> entries]
EmptyObj == Dataset(<<>>)

\* a built-in function
Fn(name) == [tag |-> "function", name |-> name]

\* the names of properties that the script spells out, by name and by the
\* characters of the name
SpelledNames ==
    << [name |-> "dates", chars |-> <<"d", "a", "t", "e", "s">>],
       [name |-> "users", chars |-> <<"u", "s", "e", "r", "s">>],
       [name |-> "charts", chars |-> <<"c", "h", "a", "r", "t", "s">>],
       [name |-> "overall", chars |-> <<"o", "v", "e", "r", "a", "l", "l">>],
       [name |-> "earnedHours", chars |-> <<"e", "a", "r", "n", "e", "d", "H", "o", "u", "r", "s">>],
       [name |-> "actualCost", chars |-> <<"a", "c", "t", "u", "a", "l", "C", "o", "s", "t">>],
       [name |-> "dailyPlannedHours", chars |-> <<"d", "a", "i", "l", "y", "P", "l", "a", "n", "n", "e", "d", "H", "o", "u", "r", "s">>],
       [name |-> "earnedValue", chars |-> <<"e", "a", "r", "n", "e", "d", "V", "a", "l", "u", "e">>],
       [name |-> "plannedValue", chars |-> <<"p", "l", "a", "n", "n", "e", "d", "V", "a", "l", "u", "e">>],
       [name |-> "length", chars |-> <<"l", "e", "n", "g", "t", "h">>] >>

\* the characters of the spelled-out name k
CharsOf(k) == SpelledNames[CHOOSE i \in 1..Len(SpelledNames) : SpelledNames[i].name = k].chars

\* the property of an object that has the spelled-out name k
Prop(k, v) == Entry(CharsOf(k), v)

\* ToBoolean
Truthy(x) ==
    CASE x.tag = "undefined" -> FALSE
      [] x.tag = "null" -> FALSE
      [] x.tag = "boolean" -> x.val
      [] x.tag = "number" ->
           "nan" \notin DOMAIN x /\ ("num" \notin DOMAIN x \/ x.num # 0)
      [] OTHER -> TRUE

\* x != null  (loose inequality: neither null nor undefined)
NotNullish(x) == x.tag \notin {"undefined", "null"}


(***************************************************************************)
(* JavaScript numbers are IEEE 754 doubles.  A double that can be written  *)
(* num/den with |num| < 2^31 and den a power of two up to 2^30 is held in  *)
(* that form (Num, Rat), every other double as                             *)
(*     [tag |-> "number", neg |-> s, mant |-> m, exp |-> e]                *)
(* of value (-1)^s * m * 2^e, where m is the 53-bit significand as a       *)
(* sequence of limbs of 15 bits, least significant first.  Each double has *)
(* one form only, so = on the records is = on the doubles.  NaN is the     *)
(* number [tag |-> "number", nan |-> TRUE].  Infinities, subnormal numbers *)
(* and the sign of zero are outside the model.                             *)
(***************************************************************************)
NaN == [tag |-> "number", nan |-> TRUE]
IsNaN(x) == "nan" \in DOMAIN x

Limb == 32768

\* the powers of two below 2^31
Pow2Table ==
    <<1, 2, 4, 8, 16, 32, 64, 128, 256, 512, 1024, 2048, 4096, 8192, 16384,
      32768, 65536, 131072, 262144, 524288, 1048576, 2097152, 4194304,
      8388608, 16777216, 33554432, 67108864, 134217728, 268435456,
      536870912, 1073741824>>

\* 2^k for 0 <= k <= 30
Pow2(k) == Pow2Table[k + 1]

\* the number of bits of the natural number n
RECURSIVE BitLen(_)
BitLen(n) ==
    IF n = 0 THEN 0
    ELSE IF n >= 256 THEN 8 + BitLen(n \div 256)
    ELSE 1 + BitLen(n \div 2)

\* a natural number as limbs, least significant first, <<>> for 0
RECURSIVE BigFromNat(_)
BigFromNat(n) == IF n = 0 THEN <<>> ELSE <<n % Limb>> \o BigFromNat(n \div Limb)

\* the natural number of at most 31 bits that the limbs a hold
RECURSIVE BigToNat(_)
BigToNat(a) == IF a = <<>> THEN 0 ELSE a[1] + Limb * BigToNat(Tail(a))

\* a without leading zero limbs
RECURSIVE BigNorm(_)
BigNorm(a) ==
    IF a = <<>> \/ a[Len(a)] # 0 THEN a ELSE BigNorm(SubSeq(a, 1, Len(a) - 1))

BigBitLen(a) == IF a = <<>> THEN 0 ELSE 15 * (Len(a) - 1) + BitLen(a[Len(a)])

\* bit k (from 0) of a
BigBit(a, k) ==
    IF k \div 15 + 1 > Len(a) THEN 0
    ELSE (a[k \div 15 + 1] \div Pow2(k % 15)) % 2

\* a * k + c for 0 <= k < 2^15
RECURSIVE BigMulAdd(_, _, _)
BigMulAdd(a, k, c) ==
    IF a = <<>> THEN BigFromNat(c)
    ELSE LET t == a[1] * k + c
         IN <<t % Limb>> \o BigMulAdd(Tail(a), k, t \div Limb)

BigMulSmall(a, k) == BigNorm(BigMulAdd(a, k, 0))

\* a + b + c, c a carry of 0 or 1
RECURSIVE BigAddCarry(_, _, _)
BigAddCarry(a, b, c) ==
    IF a = <<>> /\ b = <<>> THEN BigFromNat(c)
    ELSE LET x == IF a = <<>> THEN 0 ELSE a[1]
             y == IF b = <<>> THEN 0 ELSE b[1]
             t == x + y + c
         IN <<t % Limb>> \o BigAddCarry(IF a = <<>> THEN a ELSE Tail(a),
                                        IF b = <<>> THEN b ELSE Tail(b),
                                        t \div Limb)

BigAdd(a, b) == BigAddCarry(a, b, 0)

\* a - b - c for a >= b + c, c a borrow of 0 or 1
RECURSIVE BigSubBorrow(_, _, _)
BigSubBorrow(a, b, c) ==
    IF a = <<>> THEN <<>>
    ELSE LET y == IF b = <<>> THEN 0 ELSE b[1]
             t == a[1] - y - c
         IN <<t % Limb>> \o BigSubBorrow(Tail(a),
                                         IF b = <<>> THEN b ELSE Tail(b),
                                         IF t < 0 THEN 1 ELSE 0)

BigSub(a, b) == BigNorm(BigSubBorrow(a, b, 0))

\* a < b, from the most significant limb
RECURSIVE BigLess(_, _)
BigLess(a, b) ==
    IF Len(a) # Len(b) THEN Len(a) < Len(b)
    ELSE IF a = <<>> THEN FALSE
    ELSE IF a[Len(a)] # b[Len(b)] THEN a[Len(a)] < b[Len(b)]
    ELSE BigLess(BigNorm(SubSeq(a, 1, Len(a) - 1)),
                 BigNorm(SubSeq(b, 1, Len(b) - 1)))

\* a * b, one limb of b at a time
RECURSIVE BigMulLimbs(_, _)
BigMulLimbs(a, b) ==
    IF a = <<>> \/ b = <<>> THEN <<>>
    ELSE IF Len(b) = 1 THEN BigMulSmall(a, b[1])
    ELSE BigAdd(BigMulSmall(a, b[1]),
                LET rest == BigMulLimbs(a, Tail(b))
                IN IF rest = <<>> THEN <<>> ELSE <<0>> \o rest)

\* a * b
BigMul(a, b) == IF Len(a) < Len(b) THEN BigMulLimbs(b, a) ELSE BigMulLimbs(a, b)

\* a * 2^k
BigShl(a, k) ==
    IF a = <<>> THEN <<>>
    ELSE [i \in 1..(k \div 15) |-> 0] \o BigMulSmall(a, Pow2(k % 15))

\* the limbs b (those of a from limb d + 1 on) \div lo, where lo * hi = 2^15
BigShrLimbs(b, lo, hi) ==
    [i \in 1..Len(b) |->
       (b[i] \div lo) + (IF i < Len(b) THEN (b[i + 1] % lo) * hi ELSE 0)]

\* a \div 2^k
BigShr(a, k) ==
    BigNorm(BigShrLimbs(IF k \div 15 >= Len(a) THEN <<>>
                        ELSE SubSeq(a, k \div 15 + 1, Len(a)),
                        Pow2(k % 15), Pow2(15 - (k % 15))))

\* the number of zero bits at the low end of n # 0
RECURSIVE TrailingZeros(_)
TrailingZeros(n) == IF n % 2 = 1 THEN 0 ELSE 1 + TrailingZeros(n \div 2)

\* the number of zero bits at the low end of a # 0
RECURSIVE BigTrailingZeros(_)
BigTrailingZeros(a) ==
    IF a[1] = 0 THEN 15 + BigTrailingZeros(Tail(a)) ELSE TrailingZeros(a[1])

\* the largest g in lo..hi with d * g <= cur, by bisection (d * lo <= cur)
RECURSIVE BigDigit(_, _, _, _)
BigDigit(cur, d, lo, hi) ==
    IF lo = hi THEN lo
    ELSE LET mid == (lo + hi + 1) \div 2
         IN IF BigLess(cur, BigMulSmall(d, mid))
            THEN BigDigit(cur, d, lo, mid - 1)
            ELSE BigDigit(cur, d, mid, hi)

\* quotient and remainder of a by d # 0, one limb of a at a time from the top
RECURSIVE BigDivLong(_, _)
BigDivLong(a, d) ==
    IF a = <<>> THEN [q |-> <<>>, r |-> <<>>]
    ELSE LET hi == BigDivLong(Tail(a), d)
             cur == BigNorm(<<a[1]>> \o hi.r)
             g == BigDigit(cur, d, 0, Limb - 1)
         IN [q |-> BigNorm(<<g>> \o hi.q), r |-> BigSub(cur, BigMulSmall(d, g))]

\* quotient and remainder of a by the natural number k, 0 < k < 2^15
RECURSIVE BigDivShort(_, _)
BigDivShort(a, k) ==
    IF a = <<>> THEN [q |-> <<>>, r |-> 0]
    ELSE LET hi == BigDivShort(Tail(a), k)
             cur == hi.r * Limb + a[1]
         IN [q |-> <<cur \div k>> \o hi.q, r |-> cur % k]

\* quotient and remainder of a by d # 0
BigDivMod(a, d) ==
    IF Len(d) = 1
    THEN LET s == BigDivShort(a, d[1])
         IN [q |-> BigNorm(s.q), r |-> BigFromNat(s.r)]
    ELSE BigDivLong(a, d)

RECURSIVE Gcd(_, _)
Gcd(a, b) == IF b = 0 THEN a ELSE Gcd(b, a % b)

Abs(n) == IF n < 0 THEN -n ELSE n

\* the number n/d (d # 0) in lowest terms with a positive denominator
Rat(n, d) ==
    LET g == Gcd(Abs(n), Abs(d))
        s == IF d < 0 THEN -1 ELSE 1
    IN [tag |-> "number", num |-> s * (n \div g), den |-> s * (d \div g)]

\* the conversion of x to a number or to a string throws a TypeError: x is
\* an object with an own property toString (a value of data.json, which is
\* not callable, where the valueOf that the object has or inherits gives no
\* primitive value), or an array with such an element, which the join of
\* the array converts
RECURSIVE ToPrimitiveThrows(_)
ToPrimitiveThrows(x) ==
    CASE x.tag = "object" ->
           \E i \in 1..Len(x.entries) :
              x.entries[i].key = <<"t", "o", "S", "t", "r", "i", "n", "g">>
      [] x.tag = "array" -> \E i \in 1..Len(x.v) : ToPrimitiveThrows(x.v[i])
      [] OTHER -> FALSE

\* ToNumber of undefined, null, a boolean, a number, an object, a function
\* or an array (which converts by way of its string: "" when it is empty,
\* that of its element when it has one, a text with a comma otherwise),
\* where the conversion does not throw
RECURSIVE ToNumber(_)
ToNumber(x) ==
    CASE x.tag = "number" -> x
      [] x.tag = "null" -> Num(0)
      [] x.tag = "boolean" -> IF x.val THEN Num(1) ELSE Num(0)
      [] x.tag = "array" ->
           IF Len(x.v) = 0 THEN Num(0)
           ELSE IF Len(x.v) > 1 THEN NaN
           ELSE IF x.v[1].tag \in {"null", "undefined"} THEN Num(0)
           ELSE IF x.v[1].tag \in {"number", "array"} THEN ToNumber(x.v[1])
           ELSE NaN
      [] x.tag \in {"undefined", "object", "function"} -> NaN

\* the double is held as num/den
IsRat(x) == "num" \in DOMAIN x

\* sign, magnitude m and exponent e of the double x = (-1)^neg * m * 2^e
Sign(x) == IF IsRat(x) THEN x.num < 0 ELSE x.neg
Mant(x) == IF IsRat(x) THEN BigFromNat(Abs(x.num)) ELSE x.mant
Expo(x) == IF IsRat(x) THEN 1 - BitLen(x.den) ELSE x.exp

\* the double of value (-1)^neg * odd * 2^e, odd an odd number of n bits
\* (n <= 53), in the one form that it has
DoubleOfOdd(neg, odd, n, e) ==
    IF n + (IF e > 0 THEN e ELSE 0) <= 31 /\ e >= -30
    THEN [tag |-> "number",
          num |-> (IF neg THEN -1 ELSE 1) * BigToNat(odd) * Pow2(IF e > 0 THEN e ELSE 0),
          den |-> Pow2(IF e < 0 THEN -e ELSE 0)]
    ELSE [tag |-> "number", neg |-> neg, mant |-> BigShl(odd, 53 - n),
          exp |-> e - (53 - n)]

\* the double of value (-1)^neg * m * 2^e, where m ends in t zero bits
DoubleWithoutZeros(neg, m, e, t) ==
    DoubleOfOdd(neg, BigShr(m, t), BigBitLen(m) - t, e + t)

\* the double of value (-1)^neg * m * 2^e (m # 0 of at most 53 bits apart
\* from zero bits at its low end)
Double(neg, m, e) == DoubleWithoutZeros(neg, m, e, BigTrailingZeros(m))

\* the double of value (-1)^neg * q * 2^e or, when the part that was dropped
\* is above one half (half and rest) or is one half (half alone) and q is
\* odd, of value (-1)^neg * (q + 1) * 2^e: round to nearest, ties to even
RoundKept(neg, q, e, half, rest) ==
    Double(neg,
           IF half /\ (rest \/ BigBit(q, 0) = 1) THEN BigAdd(q, <<1>>) ELSE q,
           e)

\* the double nearest to (-1)^neg * (m + f) * 2^e, where the sh low bits of
\* m are dropped; f is a fraction in [0, 1) that is not 0 exactly if sticky
RoundDropping(neg, m, e, sticky, sh) ==
    RoundKept(neg, BigShr(m, sh), e + sh, BigBit(m, sh - 1) = 1,
              sticky \/ BigTrailingZeros(m) < sh - 1)

\* the double nearest to (-1)^neg * (m + f) * 2^e, ties to even, where m # 0
\* and f is a fraction in [0, 1) that is not 0 exactly if sticky; when f is
\* not 0, m has at least 55 bits
RoundToDouble(neg, m, e, sticky) ==
    IF BigBitLen(m) <= 53 THEN Double(neg, m, e)
    ELSE RoundDropping(neg, m, e, sticky, BigBitLen(m) - 53)

IsZero(x) == IsRat(x) /\ x.num = 0

\* both operands are held as num/den with numbers below 2^15
BothShort(a, b) ==
    /\ IsRat(a) /\ IsRat(b)
    /\ Abs(a.num) < Limb /\ a.den < Limb
    /\ Abs(b.num) < Limb /\ b.den < Limb

\* the denominator of x is a power of two
IsDyadic(x) == x.den = Pow2(BitLen(x.den) - 1)

\* the double nearest to (-1)^neg * (d.q + d.r / divisor) * 2^e, for a
\* quotient d.q of at least 55 bits and a remainder d.r
RoundQuotient(neg, d, e) == RoundToDouble(neg, d.q, e, d.r # <<>>)

\* a / b from the quotient of the significands, a times 2^s by b
DivideShifted(a, b, s) ==
    RoundQuotient(Sign(a) # Sign(b), BigDivMod(BigShl(Mant(a), s), Mant(b)),
                  Expo(a) - Expo(b) - s)

\* a / b from the quotient of the significands to 55 bits or more
DivideSignificands(a, b, ma, mb) ==
    DivideShifted(a, b, IF 55 + mb > ma THEN 55 + mb - ma ELSE 0)

\* a / b for b # 0: NaN when an operand is, else the exact quotient when it is a double, else the
\* quotient of the significands to 55 bits or more, rounded
NumDiv(a, b) ==
    IF IsNaN(a) \/ IsNaN(b) THEN NaN
    ELSE IF IsZero(a) THEN Num(0)
    ELSE IF BothShort(a, b) /\ IsDyadic(Rat(a.num * b.den, a.den * b.num))
    THEN Rat(a.num * b.den, a.den * b.num)
    ELSE DivideSignificands(a, b, BigBitLen(Mant(a)), BigBitLen(Mant(b)))

\* a * b: the exact product, rounded when it has more than 53 bits
NumMul(a, b) ==
    IF IsNaN(a) \/ IsNaN(b) THEN NaN
    ELSE IF IsZero(a) \/ IsZero(b) THEN Num(0)
    ELSE IF BothShort(a, b) THEN Rat(a.num * b.num, a.den * b.den)
    ELSE RoundToDouble(Sign(a) # Sign(b), BigMul(Mant(a), Mant(b)),
                       Expo(a) + Expo(b), FALSE)

\* x * 2^ex < y * 2^ey for natural numbers x and y held as limbs
ScaledLess(x, ex, y, ey) ==
    IF ex < ey THEN BigLess(x, BigShl(y, ey - ex)) ELSE BigLess(BigShl(x, ex - ey), y)

\* a < b
NumLess(a, b) ==
    IF IsNaN(a) \/ IsNaN(b) THEN FALSE
    ELSE IF BothShort(a, b) THEN a.num * b.den < b.num * a.den
    ELSE IF IsZero(a) THEN ~IsZero(b) /\ ~Sign(b)
    ELSE IF IsZero(b) THEN Sign(a)
    ELSE IF Sign(a) # Sign(b) THEN Sign(a)
    ELSE IF Sign(a) THEN ScaledLess(Mant(b), Expo(b), Mant(a), Expo(a))
    ELSE ScaledLess(Mant(a), Expo(a), Mant(b), Expo(b))

\* Math.max(a, b)
NumMax2(a, b) ==
    IF IsNaN(a) \/ IsNaN(b) THEN NaN ELSE IF NumLess(a, b) THEN b ELSE a

\* the smallest integer not below the rational n/d, d > 0
Ceil(n, d) == -((-n) \div d)

\* the least integer not below (-1)^neg * (q + f), as a double; f is a
\* fraction in [0, 1) that is not 0 if frac
CeilOfParts(neg, q, frac) ==
    IF frac /\ ~neg THEN Double(FALSE, BigAdd(q, <<1>>), 0)
    ELSE IF q = <<>> THEN Num(0)
    ELSE Double(neg, q, 0)

\* Math.ceil of the double x
NumCeil(x) ==
    IF IsNaN(x) THEN NaN
    ELSE IF IsRat(x) THEN Num(Ceil(x.num, x.den))
    ELSE IF x.exp >= 0 THEN x
    ELSE CeilOfParts(x.neg, BigShr(x.mant, -x.exp),
                     BigTrailingZeros(x.mant) < -x.exp)

\* the literal 1.05: the double 4728779608739021 / 2^52
OnePointZeroFive ==
    [tag |-> "number", neg |-> FALSE, mant |-> <<19661, 6553, 13107, 134>>,
     exp |-> -52]

(***************************************************************************)
(* Strings that the script parses are sequences of one-character strings.  *)
(***************************************************************************)
Digits == {"0", "1", "2", "3", "4", "5", "6", "7", "8", "9"}
DigitVal(c) ==
    CASE c = "0" -> 0 [] c = "1" -> 1 [] c = "2" -> 2 [] c = "3" -> 3
      [] c = "4" -> 4 [] c = "5" -> 5 [] c = "6" -> 6 [] c = "7" -> 7
      [] c = "8" -> 8 [] c = "9" -> 9

DigitChar(n) ==
    CASE n = 0 -> "0" [] n = 1 -> "1" [] n = 2 -> "2" [] n = 3 -> "3"
      [] n = 4 -> "4" [] n = 5 -> "5" [] n = 6 -> "6" [] n = 7 -> "7"
      [] n = 8 -> "8" [] n = 9 -> "9"

\* ToString of the natural number n
RECURSIVE NatChars(_)
NatChars(n) ==
    IF n < 10 THEN <<DigitChar(n)>> ELSE Append(NatChars(n \div 10), DigitChar(n % 10))

\* the characters name write an array index: a number below 2^32 - 1 in
\* decimal digits without a leading zero
IsIndexKey(name) ==
    /\ name # <<>>
    /\ \A i \in 1..Len(name) : name[i] \in Digits
    /\ Len(name) = 1 \/ name[1] # "0"
    /\ \/ Len(name) < 10
       \/ /\ Len(name) = 10
          /\ \A i \in 1..10 :
                (\A j \in 1..(i - 1) : name[j] = <<"4", "2", "9", "4", "9", "6", "7", "2", "9", "4">>[j])
                  => DigitVal(name[i]) <= DigitVal(<<"4", "2", "9", "4", "9", "6", "7", "2", "9", "4">>[i])

AllTime == <<"A", "l", "l", " ", "T", "i", "m", "e">>
EvPv == <<"E", "V", "/", "P", "V">>
Overall == <<"o", "v", "e", "r", "a", "l", "l">>
OverallTeam == <<"O", "v", "e", "r", "a", "l", "l", " ", "T", "e", "a", "m">>

\* ASCII whitespace: space, tab, line feed, form feed, carriage return
Whitespace == {" ", "\t", "\n", "\f", "\r"}

RECURSIVE StripLeading(_)
StripLeading(s) ==
    IF s # <<>> /\ s[1] \in Whitespace THEN StripLeading(Tail(s)) ELSE s

\* s, which does not begin with whitespace, with every run of whitespace
\* replaced by one space and a run at the end dropped
RECURSIVE CollapseRuns(_)
CollapseRuns(s) ==
    IF s = <<>> THEN <<>>
    ELSE IF s[1] \in Whitespace
    THEN LET rest == StripLeading(s)
         IN IF rest = <<>> THEN <<>> ELSE <<" ">> \o CollapseRuns(rest)
    ELSE <<s[1]>> \o CollapseRuns(Tail(s))

\* option.text: the text content with ASCII whitespace stripped and collapsed
StripAndCollapse(s) == CollapseRuns(StripLeading(s))

\* a.match(/\d+/)?.[0] : the leftmost maximal run of digits, <<>> when none
MatchDigits(a) ==
    LET ds == {i \in 1..Len(a) : a[i] \in Digits}
    IN IF ds = {} THEN <<>>
       ELSE LET p == CHOOSE i \in ds : \A j \in ds : i <= j
                q == CHOOSE i \in p..Len(a) :
                        /\ \A j \in p..i : a[j] \in Digits
                        /\ (i = Len(a) \/ a[i + 1] \notin Digits)
            IN SubSeq(a, p, q)

\* parseInt of a string of decimal digits
RECURSIVE ParseInt(_)
ParseInt(ds) ==
    IF ds = <<>> THEN 0
    ELSE ParseInt(SubSeq(ds, 1, Len(ds) - 1)) * 10 + DigitVal(ds[Len(ds)])

\* parseInt(a.match(/\d+/)?.[0] || -1)
SprintNum(a) == IF MatchDigits(a) = <<>> THEN -1 ELSE ParseInt(MatchDigits(a))

\* the comparator of populateSprintFilter: negative, zero or positive
SprintCompare(a, b) == SprintNum(a) - SprintNum(b)

\* a sort that moves an element past its equals: not stable
RECURSIVE InsertSorted_Unstable(_, _)
InsertSorted_Unstable(sorted, x) ==
    IF sorted = <<>> THEN <<x>>
    ELSE IF SprintCompare(sorted[Len(sorted)], x) < 0 THEN Append(sorted, x)
    ELSE Append(InsertSorted_Unstable(SubSeq(sorted, 1, Len(sorted) - 1), x),
                sorted[Len(sorted)])

\* Array.prototype.sort with that comparator: a stable sort
RECURSIVE InsertSorted(_, _)
InsertSorted(sorted, x) ==
    IF sorted = <<>> THEN <<x>>
    ELSE IF SprintCompare(sorted[Len(sorted)], x) <= 0 THEN Append(sorted, x)
    ELSE Append(InsertSorted(SubSeq(sorted, 1, Len(sorted) - 1), x),
                sorted[Len(sorted)])

RECURSIVE SortSprintNames(_)
SortSprintNames(names) ==
    IF names = <<>> THEN <<>>
    ELSE InsertSorted(SortSprintNames(SubSeq(names, 1, Len(names) - 1)),
                      names[Len(names)])

(***************************************************************************)
(* Property access: Object.keys and the lookup of a property by its name.  *)
(***************************************************************************)
\* Object.keys(d): the own property names of an object (array indices first,
\* in ascending order, then the other names in the order of their first
\* entry), the indices of an array, nothing for a number or a boolean
Keys(d) ==
    CASE d.tag = "object" ->
           LET first == {i \in 1..Len(d.entries) :
                           \A j \in 1..(i - 1) : d.entries[j].key # d.entries[i].key}
               idx == {i \in first : IsIndexKey(d.entries[i].key)}
               \* index key a writes a smaller number than index key b
               IndexKeyLess(a, b) ==
                   \/ Len(a) < Len(b)
                   \/ /\ Len(a) = Len(b)
                      /\ \E i \in 1..Len(a) : /\ DigitVal(a[i]) < DigitVal(b[i])
                                               /\ \A j \in 1..(i - 1) : a[j] = b[j]
               Rank(i) ==
                   IF i \in idx
                   THEN 1 + Cardinality({j \in idx : IndexKeyLess(d.entries[j].key,
                                                                  d.entries[i].key)})
                   ELSE Cardinality(idx) + Cardinality({j \in first \ idx : j <= i})
           IN [n \in 1..Cardinality(first) |->
                  d.entries[CHOOSE i \in first : Rank(i) = n].key]
      [] d.tag = "array" -> [i \in 1..Len(d.v) |-> NatChars(i - 1)]
      [] d.tag \in {"number", "boolean"} -> <<>>

\* the methods of the built-in prototype objects, by the prototype that owns
\* them, by name and by the characters of the name
PrototypeMethods ==
    { [owner |-> "Object", name |-> "hasOwnProperty", chars |-> <<"h", "a", "s", "O", "w", "n", "P", "r", "o", "p", "e", "r", "t", "y">>],
      [owner |-> "Object", name |-> "isPrototypeOf", chars |-> <<"i", "s", "P", "r", "o", "t", "o", "t", "y", "p", "e", "O", "f">>],
      [owner |-> "Object", name |-> "propertyIsEnumerable", chars |-> <<"p", "r", "o", "p", "e", "r", "t", "y", "I", "s", "E", "n", "u", "m", "e", "r", "a", "b", "l", "e">>],
      [owner |-> "Object", name |-> "toLocaleString", chars |-> <<"t", "o", "L", "o", "c", "a", "l", "e", "S", "t", "r", "i", "n", "g">>],
      [owner |-> "Object", name |-> "toString", chars |-> <<"t", "o", "S", "t", "r", "i", "n", "g">>],
      [owner |-> "Object", name |-> "valueOf", chars |-> <<"v", "a", "l", "u", "e", "O", "f">>],
      [owner |-> "Object", name |-> "__defineGetter__", chars |-> <<"_", "_", "d", "e", "f", "i", "n", "e", "G", "e", "t", "t", "e", "r", "_", "_">>],
      [owner |-> "Object", name |-> "__defineSetter__", chars |-> <<"_", "_", "d", "e", "f", "i", "n", "e", "S", "e", "t", "t", "e", "r", "_", "_">>],
      [owner |-> "Object", name |-> "__lookupGetter__", chars |-> <<"_", "_", "l", "o", "o", "k", "u", "p", "G", "e", "t", "t", "e", "r", "_", "_">>],
      [owner |-> "Object", name |-> "__lookupSetter__", chars |-> <<"_", "_", "l", "o", "o", "k", "u", "p", "S", "e", "t", "t", "e", "r", "_", "_">>],
      [owner |-> "Array", name |-> "at", chars |-> <<"a", "t">>],
      [owner |-> "Array", name |-> "concat", chars |-> <<"c", "o", "n", "c", "a", "t">>],
      [owner |-> "Array", name |-> "copyWithin", chars |-> <<"c", "o", "p", "y", "W", "i", "t", "h", "i", "n">>],
      [owner |-> "Array", name |-> "entries", chars |-> <<"e", "n", "t", "r", "i", "e", "s">>],
      [owner |-> "Array", name |-> "every", chars |-> <<"e", "v", "e", "r", "y">>],
      [owner |-> "Array", name |-> "fill", chars |-> <<"f", "i", "l", "l">>],
      [owner |-> "Array", name |-> "filter", chars |-> <<"f", "i", "l", "t", "e", "r">>],
      [owner |-> "Array", name |-> "find", chars |-> <<"f", "i", "n", "d">>],
      [owner |-> "Array", name |-> "findIndex", chars |-> <<"f", "i", "n", "d", "I", "n", "d", "e", "x">>],
      [owner |-> "Array", name |-> "findLast", chars |-> <<"f", "i", "n", "d", "L", "a", "s", "t">>],
      [owner |-> "Array", name |-> "findLastIndex", chars |-> <<"f", "i", "n", "d", "L", "a", "s", "t", "I", "n", "d", "e", "x">>],
      [owner |-> "Array", name |-> "flat", chars |-> <<"f", "l", "a", "t">>],
      [owner |-> "Array", name |-> "flatMap", chars |-> <<"f", "l", "a", "t", "M", "a", "p">>],
      [owner |-> "Array", name |-> "forEach", chars |-> <<"f", "o", "r", "E", "a", "c", "h">>],
      [owner |-> "Array", name |-> "includes", chars |-> <<"i", "n", "c", "l", "u", "d", "e", "s">>],
      [owner |-> "Array", name |-> "indexOf", chars |-> <<"i", "n", "d", "e", "x", "O", "f">>],
      [owner |-> "Array", name |-> "join", chars |-> <<"j", "o", "i", "n">>],
      [owner |-> "Array", name |-> "keys", chars |-> <<"k", "e", "y", "s">>],
      [owner |-> "Array", name |-> "lastIndexOf", chars |-> <<"l", "a", "s", "t", "I", "n", "d", "e", "x", "O", "f">>],
      [owner |-> "Array", name |-> "map", chars |-> <<"m", "a", "p">>],
      [owner |-> "Array", name |-> "pop", chars |-> <<"p", "o", "p">>],
      [owner |-> "Array", name |-> "push", chars |-> <<"p", "u", "s", "h">>],
      [owner |-> "Array", name |-> "reduce", chars |-> <<"r", "e", "d", "u", "c", "e">>],
      [owner |-> "Array", name |-> "reduceRight", chars |-> <<"r", "e", "d", "u", "c", "e", "R", "i", "g", "h", "t">>],
      [owner |-> "Array", name |-> "reverse", chars |-> <<"r", "e", "v", "e", "r", "s", "e">>],
      [owner |-> "Array", name |-> "shift", chars |-> <<"s", "h", "i", "f", "t">>],
      [owner |-> "Array", name |-> "slice", chars |-> <<"s", "l", "i", "c", "e">>],
      [owner |-> "Array", name |-> "some", chars |-> <<"s", "o", "m", "e">>],
      [owner |-> "Array", name |-> "sort", chars |-> <<"s", "o", "r", "t">>],
      [owner |-> "Array", name |-> "splice", chars |-> <<"s", "p", "l", "i", "c", "e">>],
      [owner |-> "Array", name |-> "toLocaleString", chars |-> <<"t", "o", "L", "o", "c", "a", "l", "e", "S", "t", "r", "i", "n", "g">>],
      [owner |-> "Array", name |-> "toReversed", chars |-> <<"t", "o", "R", "e", "v", "e", "r", "s", "e", "d">>],
      [owner |-> "Array", name |-> "toSorted", chars |-> <<"t", "o", "S", "o", "r", "t", "e", "d">>],
      [owner |-> "Array", name |-> "toSpliced", chars |-> <<"t", "o", "S", "p", "l", "i", "c", "e", "d">>],
      [owner |-> "Array", name |-> "toString", chars |-> <<"t", "o", "S", "t", "r", "i", "n", "g">>],
      [owner |-> "Array", name |-> "unshift", chars |-> <<"u", "n", "s", "h", "i", "f", "t">>],
      [owner |-> "Array", name |-> "values", chars |-> <<"v", "a", "l", "u", "e", "s">>],
      [owner |-> "Array", name |-> "with", chars |-> <<"w", "i", "t", "h">>],
      [owner |-> "Number", name |-> "toExponential", chars |-> <<"t", "o", "E", "x", "p", "o", "n", "e", "n", "t", "i", "a", "l">>],
      [owner |-> "Number", name |-> "toFixed", chars |-> <<"t", "o", "F", "i", "x", "e", "d">>],
      [owner |-> "Number", name |-> "toLocaleString", chars |-> <<"t", "o", "L", "o", "c", "a", "l", "e", "S", "t", "r", "i", "n", "g">>],
      [owner |-> "Number", name |-> "toPrecision", chars |-> <<"t", "o", "P", "r", "e", "c", "i", "s", "i", "o", "n">>],
      [owner |-> "Number", name |-> "toString", chars |-> <<"t", "o", "S", "t", "r", "i", "n", "g">>],
      [owner |-> "Number", name |-> "valueOf", chars |-> <<"v", "a", "l", "u", "e", "O", "f">>],
      [owner |-> "Boolean", name |-> "toString", chars |-> <<"t", "o", "S", "t", "r", "i", "n", "g">>],
      [owner |-> "Boolean", name |-> "valueOf", chars |-> <<"v", "a", "l", "u", "e", "O", "f">>],
      [owner |-> "Function", name |-> "apply", chars |-> <<"a", "p", "p", "l", "y">>],
      [owner |-> "Function", name |-> "bind", chars |-> <<"b", "i", "n", "d">>],
      [owner |-> "Function", name |-> "call", chars |-> <<"c", "a", "l", "l">>],
      [owner |-> "Function", name |-> "toString", chars |-> <<"t", "o", "S", "t", "r", "i", "n", "g">>] }

\* the prototype objects on the prototype chain of o, the nearest first
PrototypeChain(o) ==
    CASE o.tag = "array" -> <<"Array", "Object">>
      [] o.tag = "function" -> <<"Function", "Object">>
      [] o.tag = "number" -> <<"Number", "Object">>
      [] o.tag = "boolean" -> <<"Boolean", "Object">>
      [] o.tag = "object" -> <<"Object">>

\* the property with the characters name that o inherits: the constructor
\* of its nearest prototype, that prototype itself under __proto__ (the
\* script reads no property of it that it has: it is held as an empty object,
\* array or function), or a method of a prototype on the chain
InheritedKey(o, name) ==
    IF name = <<"c", "o", "n", "s", "t", "r", "u", "c", "t", "o", "r">>
    THEN Fn(PrototypeChain(o)[1])
    ELSE IF name = <<"_", "_", "p", "r", "o", "t", "o", "_", "_">>
    THEN (CASE o.tag = "array" -> Arr(<<>>)
            [] o.tag = "function" -> Fn("")
            [] OTHER -> EmptyObj)
    ELSE IF \E m \in PrototypeMethods :
               m.chars = name /\ \E i \in 1..Len(PrototypeChain(o)) : m.owner = PrototypeChain(o)[i]
    THEN Fn((CHOOSE m \in PrototypeMethods :
               m.chars = name /\ \E i \in 1..Len(PrototypeChain(o)) : m.owner = PrototypeChain(o)[i]).name)
    ELSE Undef

\* the array index that the characters name write, for an index of up to
\* nine digits, else -1
IndexOfKey(name) ==
    IF IsIndexKey(name) /\ Len(name) <= 9 THEN ParseInt(name) ELSE -1

\* a[name] for an array a: the element at that index, the length, else what
\* the array inherits
LookupInArray(a, name, index) ==
    IF index >= 0 /\ index < Len(a.v) THEN a.v[index + 1]
    ELSE IF name = CharsOf("length") THEN Num(Len(a.v))
    ELSE InheritedKey(a, name)

\* d[name] and d?.[name] for a property name given by its characters,
\* state.fullData[name] and charts?.[userKey]: the own property, else the
\* inherited one, else undefined; undefined on undefined and null, where
\* d[name] throws (the callers guard that).  Of the entries of an object
\* with that name the last one is the property (JSON.parse).  The properties
\* that a function has of its own or inherits as accessors (length, name,
\* prototype, arguments, caller) are outside the model: the script looks up
\* no computed key on a function
Lookup(d, name) ==
    CASE d.tag \in {"undefined", "null"} -> Undef
      [] d.tag = "object" ->
           LET hits == {i \in 1..Len(d.entries) : d.entries[i].key = name}
           IN IF hits = {} THEN InheritedKey(d, name)
              ELSE d.entries[CHOOSE i \in hits : \A j \in hits : j <= i].value
      [] d.tag = "array" -> LookupInArray(d, name, IndexOfKey(name))
      [] d.tag \in {"number", "boolean"} -> InheritedKey(d, name)
      [] /\ d.tag = "function"
         /\ name \notin { <<"l", "e", "n", "g", "t", "h">>, <<"n", "a", "m", "e">>,
                          <<"p", "r", "o", "t", "o", "t", "y", "p", "e">>,
                          <<"a", "r", "g", "u", "m", "e", "n", "t", "s">>,
                          <<"c", "a", "l", "l", "e", "r">> } -> InheritedKey(d, name)

\* o.k and o?.k for a property name k that the script spells out
Get(o, k) == Lookup(o, CharsOf(k))

\* the key filter of initializeDashboard without the exclusion of the
\* reserved keys
FilterReserved_KeepAll(names) == names

\* names.filter(name => name !== "All Time" && name !== "EV/PV")
RECURSIVE FilterReserved(_)
FilterReserved(names) ==
    IF names = <<>> THEN <<>>
    ELSE LET rest == FilterReserved(SubSeq(names, 1, Len(names) - 1))
             n == names[Len(names)]
         IN IF n # AllTime /\ n # EvPv THEN Append(rest, n) ELSE rest

(***************************************************************************)
(* DOM <select> elements: a sequence of options and a selected index       *)
(* (0 when nothing is selected).                                           *)
(***************************************************************************)
\* elements.sprintFilter.value ('' is the empty sequence of characters)
SprintValue(w) ==
    IF w.sprintSelected = 0 THEN <<>> ELSE w.sprintOptions[w.sprintSelected].value

\* elements.userFilter.value
UserValue(w) ==
    IF w.userSelected = 0 THEN <<>> ELSE w.userOptions[w.userSelected].value

\* select.appendChild(option): the first option of a drop-down becomes selected
SelectedAfterAppend(sel) == IF sel = 0 THEN 1 ELSE sel

(***************************************************************************)
(* Chart instances.  `instances` holds the constructed Chart objects in    *)
(* construction order; state.burnupChart is an index into it, 0 for null.  *)
(***************************************************************************)
NoLocals == [idealBurnupData |-> Undef, yAxisTop |-> Undef,
             maxPlanned |-> Undef, maxEarned |-> Undef]

\* new Chart(elements.chartCanvas, config)
NewChart(w, config) ==
    [w EXCEPT !.instances = Append(@, [live |-> TRUE, cleared |-> FALSE,
                                       usedAfterDestroy |-> FALSE,
                                       config |-> config]),
              !.burnupChart = Len(w.instances) + 1]

\* if (state.burnupChart) state.burnupChart.clear()
ClearChart(w) ==
    IF w.burnupChart = 0 THEN w
    ELSE [w EXCEPT !.instances[w.burnupChart] =
            [@ EXCEPT !.cleared = TRUE,
                      !.usedAfterDestroy = @ \/ ~w.instances[w.burnupChart].live]]

\* destroy() taken for clear(): the instance is wiped but stays bound
DestroyChart_Clear(w) == ClearChart(w)

\* if (state.burnupChart) state.burnupChart.destroy()
DestroyChart(w) ==
    IF w.burnupChart = 0 THEN w
    ELSE [w EXCEPT !.instances[w.burnupChart] =
            [@ EXCEPT !.live = FALSE,
                      !.usedAfterDestroy = @ \/ ~w.instances[w.burnupChart].live]]

\* console.error(...)
ConsoleError(w, msg) == [w EXCEPT !.log = Append(@, msg)]

\* throw: the rest of the function is skipped
Throw(w, msg) == [w EXCEPT !.threw = TRUE, !.err = msg]

(***************************************************************************)
(* chartOptions(chartTitle, yAxisLabel)                                    *)
(***************************************************************************)
chartOptions(chartTitle, yAxisLabel) ==
    [responsive |-> TRUE, maintainAspectRatio |-> FALSE,
     interaction |-> [mode |-> "index", intersect |-> FALSE],
     plugins |-> [title |-> [display |-> TRUE, text |-> chartTitle],
                  legend |-> [labels |-> [color |-> "#e5e7eb"]],
                  tooltip |-> [displayColors |-> TRUE]],
     scales |-> [x |-> [ticks |-> [color |-> "#9ca3af"]],
                 y |-> [type |-> "linear", position |-> "left", min |-> 0,
                        title |-> [display |-> TRUE, text |-> yAxisLabel],
                        ticks |-> [color |-> "#9ca3af"]]]]

(***************************************************************************)
(* The Metric Deriver part of drawChart (lines 147-153).                   *)
(***************************************************************************)
\* let plannedHoursData = dailyPlannedHours || []
PlannedHoursData(dailyPlannedHours) ==
    IF Truthy(dailyPlannedHours) THEN dailyPlannedHours ELSE Arr(<<>>)

\* the property key that length - 1 converts to: ToString of the number
\* ToNumber(length) - 1, for a length that converts to NaN or to an integer
KeyBeforeLength(len) ==
    CASE IsNaN(len) -> <<"N", "a", "N">>
      [] IsRat(len) /\ len.den = 1 /\ len.num >= 1 -> NatChars(len.num - 1)
      [] IsRat(len) /\ len.den = 1 /\ len.num < 1 -> <<"-">> \o NatChars(1 - len.num)

\* plannedHoursData[plannedHoursData.length - 1] || 0, for plannedHoursData
\* an array or any other value that is not undefined or null, where the
\* conversion of the length does not throw.  The string of a number that
\* is neither NaN nor an integer begins with a digit or with "-": the
\* property is undefined where no own property has such a name (where one
\* has, the string of the number is outside the model)
FinalPlanned(plannedHoursData) ==
    LET len == ToNumber(Get(plannedHoursData, "length"))
        own == Keys(plannedHoursData)
        last == IF IsNaN(len) \/ (IsRat(len) /\ len.den = 1)
                THEN Lookup(plannedHoursData, KeyBeforeLength(len))
                ELSE CASE \A i \in 1..Len(own) :
                            own[i] = <<>> \/ own[i][1] \notin Digits \cup {"-"} -> Undef
    IN IF Truthy(last) THEN last ELSE Num(0)

\* the slope taken over N instead of N - 1
IdealBurnupData_OverN(dates, finalPlanned) ==
    LET n == Len(dates.v)
        slope == NumDiv(ToNumber(finalPlanned), Num(n))
    IN Arr([i \in 1..n |->
              IF n <= 1 THEN Num(0) ELSE NumMul(slope, Num(i - 1))])

\* dates.map((_, index) => (dates.length <= 1) ? 0 : (finalPlanned / (dates.length - 1)) * index)
IdealBurnupData(dates, finalPlanned) ==
    LET n == Len(dates.v)
        slope == NumDiv(ToNumber(finalPlanned), Num(n - 1))
    IN Arr([i \in 1..n |->
              IF n <= 1 THEN Num(0) ELSE NumMul(slope, Num(i - 1))])

\* Math.max(0, ...series.filter(v => v != null)), where no conversion throws
RECURSIVE MaxOfSeries(_)
MaxOfSeries(s) ==
    IF s = <<>> THEN Num(0)
    ELSE LET rest == MaxOfSeries(SubSeq(s, 1, Len(s) - 1))
             x == s[Len(s)]
         IN IF NotNullish(x) THEN NumMax2(rest, ToNumber(x)) ELSE rest

\* the bound without the 5% headroom
YAxisTop_NoHeadroom(maxPlanned, maxEarned) ==
    LET m == NumMax2(maxPlanned, maxEarned)
    IN NumMul(NumCeil(NumDiv(m, Num(50))), Num(50))

\* Math.ceil(Math.max(maxPlanned, maxEarned) * 1.05 / 50) * 50
YAxisTop(maxPlanned, maxEarned) ==
    LET m == NumMax2(maxPlanned, maxEarned)
    IN NumMul(NumCeil(NumDiv(NumMul(m, OnePointZeroFive), Num(50))), Num(50))

(***************************************************************************)
(* The functions of the script.                                            *)
(***************************************************************************)
\* option.value = name; option.textContent = name: value is the name, text
\* (which the chart title reads) the name with whitespace collapsed
OptionOf(name) == [value |-> name, text |-> StripAndCollapse(name)]

\* populateSprintFilter(sprintNames)
populateSprintFilter(w, sprintNames) ==
    LET sorted == SortSprintNames(sprintNames)
        opts == [i \in 1..Len(sorted) |-> OptionOf(sorted[i])]
        appended == IF Len(sorted) = 0 THEN 0 ELSE SelectedAfterAppend(0)
    IN [w EXCEPT !.sprintOptions = opts,
                 !.sprintSelected = IF Len(sorted) > 0 THEN Len(sorted)
                                    ELSE appended]

OverallOption == [value |-> Overall, text |-> OverallTeam]

\* the index elements.userFilter.value = v selects: the first option with
\* that value
FirstWithValue(opts, v) ==
    CHOOSE i \in 1..Len(opts) :
        /\ opts[i].value = v
        /\ \A j \in 1..(i - 1) : opts[j].value # v

\* populateUserFilter without the restoring of the previous selection
populateUserFilter_NoRestore(w, usersArg) ==
    LET users == IF usersArg.tag = "undefined" THEN Arr(<<>>) ELSE usersArg
        w1 == [w EXCEPT !.userOptions = <<OverallOption>>,
                        !.userSelected = SelectedAfterAppend(0)]
    IN IF users.tag # "array"
       THEN Throw(w1, "TypeError")
       ELSE [w1 EXCEPT !.userOptions = <<OverallOption>> \o
                         [i \in 1..Len(users.v) |-> OptionOf(users.v[i])]]

\* populateUserFilter that appends to the options it finds
populateUserFilter_NoClear(w, usersArg) ==
    LET users == IF usersArg.tag = "undefined" THEN Arr(<<>>) ELSE usersArg
        currentUser == UserValue(w)
        w1 == [w EXCEPT !.userOptions = @ \o <<OverallOption>>,
                        !.userSelected = SelectedAfterAppend(@)]
    IN IF users.tag # "array"
       THEN Throw(w1, "TypeError")
       ELSE LET opts == w1.userOptions \o
                        [i \in 1..Len(users.v) |-> OptionOf(users.v[i])]
                w2 == [w1 EXCEPT !.userOptions = opts]
            IN IF \E i \in 1..Len(opts) : opts[i].value = currentUser
               THEN [w2 EXCEPT !.userSelected = FirstWithValue(opts, currentUser)]
               ELSE w2

\* populateUserFilter(users = [])
populateUserFilter(w, usersArg) ==
    LET users == IF usersArg.tag = "undefined" THEN Arr(<<>>) ELSE usersArg
        currentUser == UserValue(w)
        w1 == [w EXCEPT !.userOptions = <<OverallOption>>,
                        !.userSelected = SelectedAfterAppend(0)]
    IN IF users.tag # "array"
       THEN Throw(w1, "TypeError")
       ELSE LET opts == <<OverallOption>> \o
                        [i \in 1..Len(users.v) |-> OptionOf(users.v[i])]
                w2 == [w1 EXCEPT !.userOptions = opts]
            IN IF \E i \in 1..Len(opts) : opts[i].value = currentUser
               THEN [w2 EXCEPT !.userSelected = FirstWithValue(opts, currentUser)]
               ELSE w2

BurnupDatasets(earnedHours, actualCost, plannedHoursData, idealBurnupData, showIdeal) ==
    <<[label |-> "Earned Hours", data |-> earnedHours,
       borderColor |-> "#38bdf8", fill |-> TRUE],
      [label |-> "Actual Cost", data |-> actualCost,
       borderColor |-> "#f43f5e", fill |-> FALSE],
      [label |-> "Total Planned Hours", data |-> plannedHoursData,
       borderColor |-> "#34d399", fill |-> FALSE]>>
    \o (IF showIdeal
        THEN <<[label |-> "Ideal Burn-up", data |-> idealBurnupData,
                borderColor |-> "#facc15", fill |-> FALSE]>>
        ELSE <<>>)

\* drawChart from line 153: yAxisTop, the datasets, the disposal of the old
\* chart and the new chart
DrawWithMaxima(w, dates, datasets, idealBurnupData, maxPlanned, maxEarned, chartTitle) ==
    NewChart(DestroyChart([w EXCEPT !.locals =
                              [idealBurnupData |-> idealBurnupData,
                               yAxisTop |-> YAxisTop(maxPlanned, maxEarned),
                               maxPlanned |-> maxPlanned,
                               maxEarned |-> maxEarned]]),
             [type |-> "line",
              data |-> [labels |-> dates, datasets |-> datasets],
              options |-> chartOptions(chartTitle, "Hours")])

\* drawChart from line 152: earnedHours.filter throws when earnedHours is
\* not an array, Math.max when an entry does not convert to a number
DrawWithIdeal(w, dates, earnedHours, actualCost, plannedHoursData, idealBurnupData, maxPlanned, chartTitle, showIdeal) ==
    IF \/ earnedHours.tag # "array"
       \/ \E i \in 1..Len(earnedHours.v) : ToPrimitiveThrows(earnedHours.v[i])
    THEN Throw([w EXCEPT !.locals.idealBurnupData = idealBurnupData,
                         !.locals.maxPlanned = maxPlanned],
               "TypeError")
    ELSE DrawWithMaxima(w, dates,
                        BurnupDatasets(earnedHours, actualCost, plannedHoursData,
                                       idealBurnupData, showIdeal),
                        idealBurnupData, maxPlanned, MaxOfSeries(earnedHours.v),
                        chartTitle)

\* drawChart from line 151: plannedHoursData.filter throws when
\* dailyPlannedHours is not an array though it is truthy, Math.max when an
\* entry does not convert to a number
DrawPlanned(w, dates, earnedHours, actualCost, plannedHoursData, idealBurnupData, chartTitle, showIdeal) ==
    IF \/ plannedHoursData.tag # "array"
       \/ \E i \in 1..Len(plannedHoursData.v) : ToPrimitiveThrows(plannedHoursData.v[i])
    THEN Throw([w EXCEPT !.locals.idealBurnupData = idealBurnupData],
               "TypeError")
    ELSE DrawWithIdeal(w, dates, earnedHours, actualCost, plannedHoursData,
                       idealBurnupData, MaxOfSeries(plannedHoursData.v),
                       chartTitle, showIdeal)

\* drawChart from line 147: line 148 throws when plannedHoursData.length
\* does not convert to a number, dates.map when dates is not an array, and
\* the division of line 149, made for each of two dates or more, when
\* finalPlanned does not convert
DrawSeries(w, dates, earnedHours, actualCost, plannedHoursData, chartTitle, showIdeal) ==
    IF \/ ToPrimitiveThrows(Get(plannedHoursData, "length"))
       \/ dates.tag # "array"
       \/ (Len(dates.v) >= 2 /\ ToPrimitiveThrows(FinalPlanned(plannedHoursData)))
    THEN Throw(w, "TypeError")
    ELSE DrawPlanned(w, dates, earnedHours, actualCost, plannedHoursData,
                     IdealBurnupData(dates, FinalPlanned(plannedHoursData)),
                     chartTitle, showIdeal)

\* drawChart from the guard of line 137 on, chartData being
\* sprintData?.charts?.[userKey]
DrawChartData(w, dates, chartData, userKey, chartTitle, showIdeal) ==
    IF ~Truthy(chartData)
    THEN ConsoleError(ClearChart(w),
                      <<"Chart data not found for user: ", userKey>>)
    ELSE DrawSeries(w, dates, Get(chartData, "earnedHours"),
                    Get(chartData, "actualCost"),
                    PlannedHoursData(Get(chartData, "dailyPlannedHours")),
                    chartTitle, showIdeal)

\* drawChart(sprintData, userKey, chartTitle, showIdeal)
drawChart(w, sprintData, userKey, chartTitle, showIdeal) ==
    DrawChartData(w, Get(sprintData, "dates"),
                  Lookup(Get(sprintData, "charts"), userKey),
                  userKey, chartTitle, showIdeal)

\* drawEvPvChart(evPvData, chartTitle)
drawEvPvChart(w, evPvData, chartTitle) ==
    IF ~Truthy(Get(Get(evPvData, "charts"), "overall"))
    THEN ConsoleError(DestroyChart(w), <<"EV/PV data not found.">>)
    ELSE
     LET dates == Get(evPvData, "dates")
         overall == Get(Get(evPvData, "charts"), "overall")
         datasets ==
           <<[label |-> "Earned Value (EV)", data |-> Get(overall, "earnedValue"),
              borderColor |-> "#38bdf8", fill |-> TRUE],
             [label |-> "Planned Value (PV)", data |-> Get(overall, "plannedValue"),
              borderColor |-> "#34d399", fill |-> FALSE]>>
     IN NewChart(DestroyChart(w),
                 [type |-> "line",
                  data |-> [labels |-> dates, datasets |-> datasets],
                  options |-> chartOptions(chartTitle, "Cumulative Story Points")])

\* updateSprintDashboard that appends the sprint names of the dataset to the
\* sprint filter again before it renders
updateSprintDashboard_Refill(w0) ==
    LET names == FilterReserved(Keys(w0.fullData))
        w == [w0 EXCEPT !.sprintOptions =
                           @ \o [i \in 1..Len(names) |-> OptionOf(names[i])]]
        selectedSprint == SprintValue(w)
    IN IF selectedSprint # <<>> /\ ~NotNullish(w.fullData)
       THEN Throw(w, "TypeError")
       ELSE IF selectedSprint = <<>> \/ ~Truthy(Lookup(w.fullData, selectedSprint))
       THEN ConsoleError(ClearChart(w),
                         <<"Data for sprint not found.", selectedSprint>>)
       ELSE
        LET sprintData == Lookup(w.fullData, selectedSprint)
            w1 == populateUserFilter(w, Get(sprintData, "users"))
        IN IF w1.threw THEN w1
           ELSE LET selectedUser == UserValue(w1)
                    chartTitle == <<"Burn-Up: ", SprintValue(w1), " - ",
                                    w1.userOptions[w1.userSelected].text>>
                IN drawChart(w1, sprintData, selectedUser, chartTitle, TRUE)

\* updateSprintDashboard from line 111: w1 is the page after
\* populateUserFilter(sprintData.users)
RenderSprint(w1, sprintData) ==
    IF w1.threw THEN w1
    ELSE drawChart(w1, sprintData, UserValue(w1),
                   <<"Burn-Up: ", SprintValue(w1), " - ",
                     w1.userOptions[w1.userSelected].text>>,
                   TRUE)

\* updateSprintDashboard from line 108
UpdateWithRecord(w, sprintData) ==
    RenderSprint(populateUserFilter(w, Get(sprintData, "users")), sprintData)

\* updateSprintDashboard(): state.fullData[selectedSprint] throws when
\* state.fullData is null
updateSprintDashboard(w) ==
    IF SprintValue(w) # <<>> /\ ~NotNullish(w.fullData)
    THEN Throw(w, "TypeError")
    ELSE IF SprintValue(w) = <<>> \/ ~Truthy(Lookup(w.fullData, SprintValue(w)))
    THEN ConsoleError(ClearChart(w),
                      <<"Data for sprint not found.", SprintValue(w)>>)
    ELSE UpdateWithRecord(w, Lookup(w.fullData, SprintValue(w)))

EvPvTitle == <<"Performance: Earned Value vs. Planned Value (All Time)">>

\* handleViewChange that never shows the filter controls again
handleViewChange_NoReveal(w) ==
    LET selectedView == w.viewValue
        w1 == [w EXCEPT !.sprintControls = "none"]
    IN IF selectedView = "ev_pv"
       THEN IF ~NotNullish(w.fullData) THEN Throw(w1, "TypeError")
            ELSE IF Truthy(Lookup(w.fullData, EvPv))
            THEN drawEvPvChart(w1, Lookup(w.fullData, EvPv), EvPvTitle)
            ELSE w1
       ELSE updateSprintDashboard(w1)

\* handleViewChange(): state.fullData['EV/PV'] throws when state.fullData is
\* null
handleViewChange(w) ==
    LET selectedView == w.viewValue
        w1 == [w EXCEPT !.sprintControls = "none"]
    IN IF selectedView = "ev_pv"
       THEN IF ~NotNullish(w.fullData) THEN Throw(w1, "TypeError")
            ELSE IF Truthy(Lookup(w.fullData, EvPv))
            THEN drawEvPvChart(w1, Lookup(w.fullData, EvPv), EvPvTitle)
            ELSE w1
       ELSE updateSprintDashboard([w1 EXCEPT !.sprintControls = "flex"])

AllListeners == {"viewSelector", "sprintFilter", "userFilter"}

MsgNotFound == "data.json not found. Please run the Python script first."
MsgEmpty == "data.json is empty or invalid. Please run the Python script to generate data."

\* the catch clause of initializeDashboard
CatchInit(w) ==
    [ConsoleError(w, <<"Error initializing dashboard:", w.err>>)
        EXCEPT !.threw = FALSE, !.container = w.err]

\* initializeDashboard with the emptiness check reduced to the null check
initializeAfterJson_NoEmptyCheck(w, parsed) ==
    LET w0 == [w EXCEPT !.fullData = parsed]
    IN IF ~Truthy(parsed)
       THEN CatchInit(Throw(w0, MsgEmpty))
       ELSE LET sprintNames == FilterReserved(Keys(parsed))
                w1 == populateSprintFilter(w0, sprintNames)
                w2 == handleViewChange(w1)
            IN IF w2.threw THEN CatchInit(w2)
               ELSE [w2 EXCEPT !.listeners = AllListeners]

\* initializeDashboard with the listeners registered before the first render
initializeAfterJson_ListenersFirst(w, parsed) ==
    LET w0 == [w EXCEPT !.fullData = parsed]
    IN IF ~Truthy(parsed) \/ Len(Keys(parsed)) = 0
       THEN CatchInit(Throw(w0, MsgEmpty))
       ELSE LET sprintNames == FilterReserved(Keys(parsed))
                w1 == populateSprintFilter(w0, sprintNames)
                w2 == handleViewChange([w1 EXCEPT !.listeners = AllListeners])
            IN IF w2.threw THEN CatchInit(w2) ELSE w2

\* initializeDashboard() from line 56: w2 is the page after the first
\* handleViewChange(); the listeners are registered unless it threw
FinishInit(w2) ==
    IF w2.threw THEN CatchInit(w2)
    ELSE [w2 EXCEPT !.listeners = AllListeners]

\* initializeDashboard() from the point where response.json() has resolved
\* with the parsed document
initializeAfterJson(w, parsed) ==
    LET w0 == [w EXCEPT !.fullData = parsed]
    IN IF ~Truthy(parsed) \/ Len(Keys(parsed)) = 0
       THEN CatchInit(Throw(w0, MsgEmpty))
       ELSE FinishInit(handleViewChange(
                populateSprintFilter(w0, FilterReserved(Keys(parsed)))))

(***************************************************************************)
(* The documents data.json may hold.                                       *)
(***************************************************************************)
SprintPrefix == <<"S", "p", "r", "i", "n", "t", " ">>
SprintName(i) == SprintPrefix \o <<DigitChar(i)>>

DatesOf(i) == Arr(<<<<"day", i>>, <<"day", i + 1>>>>)

\* a well-formed burn-up bundle; k tells the bundles of one record apart
BurnupBundle(k) ==
    Dataset(<<Prop("earnedHours", Arr(<<Num(0), Num(40 + k)>>)),
         Prop("actualCost", Arr(<<Num(5), Num(45)>>)),
         Prop("dailyPlannedHours", Arr(<<Num(60), Num(90 + k)>>))>>)

\* a bundle whose earnedHours series is missing
BundleNoEarned ==
    Dataset(<<Prop("actualCost", Arr(<<Num(5), Num(45)>>)),
         Prop("dailyPlannedHours", Arr(<<Num(60), Num(90)>>))>>)

\* the user keys of the documents
Alice == <<"a", "l", "i", "c", "e">>
Bob == <<"b", "o", "b">>

\* the values a sprint key can be bound to
SprintRecords(i) ==
    { \* a record with one user and a bundle for each key
      Dataset(<<Prop("dates", DatesOf(i)), Prop("users", Arr(<<Alice>>)),
           Prop("charts", Dataset(<<Entry(Overall, BurnupBundle(0)),
                                Entry(Alice, BurnupBundle(1))>>))>>),
      \* a record that lists bob but has no bundle for bob
      Dataset(<<Prop("dates", DatesOf(i)), Prop("users", Arr(<<Alice, Bob>>)),
           Prop("charts", Dataset(<<Entry(Overall, BurnupBundle(0)),
                                Entry(Alice, BurnupBundle(1))>>))>>),
      \* a record without alice
      Dataset(<<Prop("dates", DatesOf(i)), Prop("users", Arr(<<Bob>>)),
           Prop("charts", Dataset(<<Entry(Overall, BurnupBundle(0)),
                                Entry(Bob, BurnupBundle(2))>>))>>),
      \* null, and the empty record
      JNull,
      EmptyObj,
      \* a record without dates
      Dataset(<<Prop("users", Arr(<<Alice>>)),
           Prop("charts", Dataset(<<Entry(Overall, BurnupBundle(0)),
                                Entry(Alice, BurnupBundle(1))>>))>>),
      \* a record whose overall bundle has no earnedHours and whose user
      \* "constructor" has no bundle
      Dataset(<<Prop("dates", DatesOf(i)), Prop("users", Arr(<<<<"c", "o", "n", "s", "t", "r", "u", "c", "t", "o", "r">>>>)),
           Prop("charts", Dataset(<<Entry(Overall, BundleNoEarned)>>))>>),
      \* a record whose users is null
      Dataset(<<Prop("dates", DatesOf(i)), Prop("users", JNull),
           Prop("charts", Dataset(<<Entry(Overall, BurnupBundle(0))>>))>>),
      \* a record whose one user has the empty name, and whose overall
      \* bundle has no dailyPlannedHours
      Dataset(<<Prop("dates", DatesOf(i)), Prop("users", Arr(<<<<>>>>)),
           Prop("charts", Dataset(<<Entry(Overall,
                                      Dataset(<<Prop("earnedHours", Arr(<<Num(0), Num(40)>>)),
                                           Prop("actualCost", Arr(<<Num(5), Num(45)>>))>>)),
                                Entry(<<>>, BurnupBundle(3))>>))>>),
      \* a record whose charts is an empty array and whose user "map" names
      \* a method that arrays inherit
      Dataset(<<Prop("dates", DatesOf(i)), Prop("users", Arr(<<<<"m", "a", "p">>>>)),
           Prop("charts", Arr(<<>>))>>),
      \* a record whose overall bundle plans {"toString": 5} hours
      Dataset(<<Prop("dates", DatesOf(i)), Prop("users", Arr(<<>>)),
           Prop("charts", Dataset(<<Entry(Overall,
                                      Dataset(<<Prop("earnedHours", Arr(<<Num(0), Num(40)>>)),
                                           Prop("actualCost", Arr(<<Num(5), Num(45)>>)),
                                           Prop("dailyPlannedHours",
                                             Arr(<<Dataset(<<Entry(<<"t", "o", "S", "t", "r", "i", "n", "g">>, Num(5))>>)>>))>>))>>))>>) }

EvPvBundle ==
    Dataset(<<Prop("earnedValue", Arr(<<Num(3), Num(8)>>)),
         Prop("plannedValue", Arr(<<Num(5), Num(10)>>))>>)

\* the values the "EV/PV" key can be bound to
EvPvRecords ==
    { Dataset(<<Prop("dates", DatesOf(0)), Prop("charts", Dataset(<<Prop("overall", EvPvBundle)>>))>>),
      Dataset(<<Prop("dates", DatesOf(0)), Prop("charts", EmptyObj)>>) }

AllTimeRecord ==
    Dataset(<<Prop("dates", DatesOf(0)), Prop("users", Arr(<<>>)),
         Prop("charts", Dataset(<<Entry(Overall, BurnupBundle(0))>>))>>)

\* the entries of sprints i, i-1, .., 1 (highest first), each present or not
RECURSIVE SprintEntries(_)
SprintEntries(i) ==
    IF i = 0 THEN {<<>>}
    ELSE LET rest == SprintEntries(i - 1)
         IN rest \cup {<<Entry(SprintName(i), r)>> \o e :
                          r \in SprintRecords(i), e \in rest}

ReservedEntries ==
    {a \o e : a \in {<<>>, <<Entry(AllTime, AllTimeRecord)>>},
              e \in {<<>>} \cup {<<Entry(EvPv, r)>> : r \in EvPvRecords}}

\* null; the sprints with or without the reserved keys; and documents
\* whose first key is the empty name, bound to a record
Documents ==
    {JNull}
    \cup {Dataset(s \o r) : s \in SprintEntries(MaxSprints), r \in ReservedEntries}
    \cup {Dataset(<<Entry(<<>>, AllTimeRecord)>> \o s) : s \in SprintEntries(MaxSprints - 1)}

\* what the fetch of data.json can come to
Responses ==
    {[kind |-> k, body |-> JNull] : k \in {"reject", "notok", "badjson"}}
    \cup {[kind |-> "ok", body |-> d] : d \in Documents}

(***************************************************************************)
(* The state machine.                                                      *)
(***************************************************************************)
Views == {"sprint", "ev_pv"}

\* the world a handler starts in: the console of this handler is empty
World ==
    [fullData |-> fullData, viewValue |-> viewValue,
     sprintControls |-> sprintControls, sprintOptions |-> sprintOptions,
     sprintSelected |-> sprintSelected, userOptions |-> userOptions,
     userSelected |-> userSelected, instances |-> instances,
     burnupChart |-> burnupChart, log |-> <<>>, listeners |-> listeners,
     container |-> container, threw |-> FALSE, err |-> "", locals |-> NoLocals]

\* Chart objects that are destroyed and that nothing refers to any more are
\* garbage: only the live ones and the one state.burnupChart holds remain
Reachable(w) ==
    LET keep == {i \in 1..Len(w.instances) :
                    w.instances[i].live \/ i = w.burnupChart}
        Rank(i) == Cardinality({j \in keep : j <= i})
        kept == [n \in 1..Cardinality(keep) |->
                    w.instances[CHOOSE i \in keep : Rank(i) = n]]
    IN [w EXCEPT !.instances = kept,
                 !.burnupChart = IF w.burnupChart = 0 THEN 0
                                 ELSE Rank(w.burnupChart)]

\* the page and the script's state become those of w
Becomes(w) ==
    /\ fullData' = w.fullData
    /\ viewValue' = w.viewValue
    /\ sprintControls' = w.sprintControls
    /\ sprintOptions' = w.sprintOptions
    /\ sprintSelected' = w.sprintSelected
    /\ userOptions' = w.userOptions
    /\ userSelected' = w.userSelected
    /\ instances' = w.instances
    /\ burnupChart' = w.burnupChart
    /\ log' = w.log
    /\ listeners' = w.listeners
    /\ container' = w.container
    /\ threw' = w.threw
    /\ locals' = w.locals

\* a handler has run and left w0
Commit(w0) == Becomes(Reachable(w0))

\* the DOM and the script's state when DOMContentLoaded has run the script up
\* to the first await of initializeDashboard
InitDom ==
    /\ fullData = JNull
    /\ viewValue = "sprint"
    /\ sprintControls = ""
    /\ sprintOptions = <<>>
    /\ sprintSelected = 0
    /\ userOptions = <<>>
    /\ userSelected = 0
    /\ instances = <<>>
    /\ burnupChart = 0
    /\ log = <<>>
    /\ listeners = {}
    /\ container = "canvas"
    /\ threw = FALSE
    /\ locals = NoLocals

Init ==
    /\ InitDom
    /\ pc = "fetching"
    /\ arg \in Responses

\* await fetch(...) settles; a rejection or a non-ok status ends in the catch
FetchSettles ==
    /\ pc = "fetching"
    /\ IF arg.kind = "reject"
       THEN Commit(CatchInit(Throw(World, "Failed to fetch"))) /\ pc' = "failed"
       ELSE IF arg.kind = "notok"
       THEN Commit(CatchInit(Throw(World, MsgNotFound))) /\ pc' = "failed"
       ELSE Commit(World) /\ pc' = "parsing"
    /\ UNCHANGED arg

\* initializeDashboard() has run to its end and left the page w
InitEnds(w) ==
    /\ Commit(w)
    /\ pc' = IF w.container = "canvas" THEN "ready" ELSE "failed"

\* await response.json() settles and the rest of initializeDashboard runs
JsonSettles ==
    /\ pc = "parsing"
    /\ InitEnds(IF arg.kind = "badjson"
                THEN CatchInit(Throw(World, "SyntaxError"))
                ELSE initializeAfterJson(World, arg.body))
    /\ UNCHANGED arg

\* the user picks a view; the change event runs handleViewChange once the
\* listener is registered
SelectView(v) ==
    /\ pc \in {"fetching", "parsing", "ready", "failed"}
    /\ LET w == [World EXCEPT !.viewValue = v]
       IN Commit(IF "viewSelector" \in listeners THEN handleViewChange(w) ELSE w)
    /\ UNCHANGED <<pc, arg>>

\* the user picks a sprint (the controls must be displayed)
SelectSprint(i) ==
    /\ pc \in {"fetching", "parsing", "ready", "failed"}
    /\ sprintControls # "none"
    /\ i \in 1..Len(sprintOptions)
    /\ LET w == [World EXCEPT !.sprintSelected = i]
       IN Commit(IF "sprintFilter" \in listeners THEN updateSprintDashboard(w) ELSE w)
    /\ UNCHANGED <<pc, arg>>

\* the user picks a user (the controls must be displayed)
SelectUser(j) ==
    /\ pc \in {"fetching", "parsing", "ready", "failed"}
    /\ sprintControls # "none"
    /\ j \in 1..Len(userOptions)
    /\ LET w == [World EXCEPT !.userSelected = j]
       IN Commit(IF "userFilter" \in listeners THEN updateSprintDashboard(w) ELSE w)
    /\ UNCHANGED <<pc, arg>>

Next ==
    \/ FetchSettles
    \/ JsonSettles
    \/ \E v \in Views : SelectView(v)
    \/ \E i \in 1..MaxSprints : SelectSprint(i)
    \/ \E j \in 1..(MaxUsers + 1) : SelectUser(j)

Spec == Init /\ [][Next]_vars

(***************************************************************************)
(* Properties of the dashboard (specification Spec).                       *)
(***************************************************************************)
LiveCharts == {i \in 1..Len(instances) : instances[i].live}

\* the dashboard is initialised and shows the sprint view
InSprintView == pc = "ready" /\ viewValue # "ev_pv"

SelectedSprint == IF sprintSelected = 0 THEN <<>> ELSE sprintOptions[sprintSelected].value
SelectedUser == IF userSelected = 0 THEN <<>> ELSE userOptions[userSelected].value

\* the selected sprint has no record: its name is empty, which
\* updateSprintDashboard takes for no selection, or its value is falsy
SprintMissing ==
    SelectedSprint = <<>> \/ ~Truthy(Lookup(fullData, SelectedSprint))

\* the selected sprint has a record without a bundle for the selected user
BundleMissing ==
    /\ ~SprintMissing
    /\ ~Truthy(Lookup(Get(Lookup(fullData, SelectedSprint), "charts"), SelectedUser))

LogHas(text) == \E i \in 1..Len(log) : log[i][1] = text

\* C1: at most one Chart that was created and not destroyed is bound to the
\* canvas, and it is the one state.burnupChart holds: every earlier instance
\* was destroyed (not merely cleared) before the next one was constructed.
C1_SingleLiveChart ==
    /\ Cardinality(LiveCharts) <= 1
    /\ \A i \in LiveCharts : i = burnupChart

\* a chart for alice is live: it replaced the chart drawn for "overall"
C1_Witness ==
    /\ pc = "ready"
    /\ burnupChart # 0
    /\ instances[burnupChart].live
    /\ Len(instances[burnupChart].config.options.plugins.title.text) = 4
    /\ instances[burnupChart].config.options.plugins.title.text[4] = Alice

\* C2: after a sprint-view render that found no record for the selected
\* sprint, or no bundle for the selected user, no chart instance is live (the
\* previous one was destroyed, none was created) and the condition is logged.
C2_MissingDataDisposesChart ==
    (InSprintView /\ ~threw /\ (SprintMissing \/ BundleMissing)) =>
        /\ LiveCharts = {}
        /\ (LogHas("Data for sprint not found.")
            \/ LogHas("Chart data not found for user: "))

\* C3: in the EV/PV view of a dataset without an "EV/PV" key no chart
\* instance is live and the missing-data condition has been logged.
C3_MissingEvPvReported ==
    (pc = "ready" /\ viewValue = "ev_pv" /\ ~Truthy(Lookup(fullData, EvPv))) =>
        /\ LiveCharts = {}
        /\ log # <<>>

\* the fetch rejected, returned a non-success status, or the document has no
\* entries
LoadFailed ==
    \/ arg.kind \in {"reject", "notok"}
    \/ arg.kind = "ok" /\ (arg.body.tag = "null" \/ Len(Keys(arg.body)) = 0)

ErrorShown == container # "canvas"

\* C4: when the fetch rejects, is not ok, or yields a document without
\* entries, initializeDashboard ends with the error message in the chart
\* container, both filters without options, no chart and no listener.
C4_LoadFailureStopsInit ==
    (LoadFailed /\ pc \in {"ready", "failed"}) =>
        /\ pc = "failed"
        /\ ErrorShown
        /\ container \in {"Failed to fetch", MsgNotFound, MsgEmpty}
        /\ sprintOptions = <<>>
        /\ userOptions = <<>>
        /\ instances = <<>>
        /\ listeners = {}

\* the empty document {} ended in the DataEmpty message
C4_Witness ==
    /\ pc = "failed"
    /\ arg.kind = "ok"
    /\ arg.body = Dataset(<<>>)
    /\ container = MsgEmpty

\* C5: every initialization that ends in the error message leaves both
\* filters without options and no live chart.
C5_NoPartialState ==
    (pc = "failed" /\ ErrorShown) =>
        /\ sprintOptions = <<>>
        /\ userOptions = <<>>
        /\ LiveCharts = {}

\* the selection has a record and a bundle for the selected user
SelectionHasData ==
    /\ ~SprintMissing
    /\ Truthy(Lookup(Get(Lookup(fullData, SelectedSprint), "charts"), SelectedUser))

\* the live chart is the burn-up chart of the selected sprint and user
LiveChartForSelection ==
    /\ burnupChart # 0
    /\ instances[burnupChart].live
    /\ instances[burnupChart].config.options.plugins.title.text =
         <<"Burn-Up: ", SelectedSprint, " - ", userOptions[userSelected].text>>

\* C6: no change handler propagates an exception, and in the sprint view a
\* selection that has data has a live chart, whatever was rendered before.
C6_RenderFailuresNonFatal ==
    /\ ~threw
    /\ (InSprintView /\ SelectionHasData) => LiveChartForSelection

(***************************************************************************)
(* populateSprintFilter on every list of names (specification              *)
(* SpecSprintFilter): arg is the sprintNames argument.                     *)
(***************************************************************************)
\* the sprint names: without digits, with one run of digits, with text
\* before and after it, with two runs, and with blanks
Names ==
    {<<>>, <<"S">>, <<"1">>, <<"2">>, <<"S", "1">>, <<"S", "2">>, <<"1", "S">>,
     <<"1", "2">>, <<"2", "1">>, <<"1", "S", "2">>, <<"S", "2", "1", "S">>,
     <<"S", " ", " ", "1">>}

RECURSIVE SeqsUpTo(_, _)
\* the sequences over S of length at most n
SeqsUpTo(S, n) ==
    IF n = 0 THEN {<<>>}
    ELSE LET shorter == SeqsUpTo(S, n - 1)
         IN shorter \cup {Append(q, x) : q \in shorter, x \in S}

\* Object.keys never yields a key twice
Distinct(q) == \A i, j \in 1..Len(q) : i # j => q[i] # q[j]

NameLists == {q \in SeqsUpTo(Names, MaxNames) : Distinct(q)}

InitSprintFilter ==
    /\ InitDom
    /\ pc = "callSprintFilter"
    /\ arg \in NameLists

CallPopulateSprintFilter ==
    /\ pc = "callSprintFilter"
    /\ Commit(populateSprintFilter(World, arg))
    /\ pc' = "doneSprintFilter"
    /\ UNCHANGED arg

NextSprintFilter == CallPopulateSprintFilter

SpecSprintFilter == InitSprintFilter /\ [][NextSprintFilter]_vars

RECURSIVE Pow10(_)
Pow10(n) == IF n = 0 THEN 1 ELSE 10 * Pow10(n - 1)

\* the integer written by the first run of digits of a name, -1 without digits
FirstEmbeddedInteger(a) ==
    LET ds == {i \in 1..Len(a) : a[i] \in Digits}
    IN IF ds = {} THEN -1
       ELSE LET first == CHOOSE i \in ds : \A j \in ds : i <= j
                run == {i \in first..Len(a) : \A j \in first..i : a[j] \in Digits}
                last == CHOOSE i \in run : \A j \in run : j <= i
                RECURSIVE Sum(_)
                Sum(i) == IF i > last THEN 0
                          ELSE DigitVal(a[i]) * Pow10(last - i) + Sum(i + 1)
            IN Sum(first)

PositionIn(q, x) == CHOOSE i \in 1..Len(q) : q[i] = x

IsInk(c) == c \notin Whitespace

\* text is the label a drop-down shows for name: the same characters apart
\* from whitespace, no whitespace at either end, and single blanks inside
LabelOf(name, text) ==
    /\ SelectSeq(text, IsInk) = SelectSeq(name, IsInk)
    /\ text # <<>> => IsInk(text[1]) /\ IsInk(text[Len(text)])
    /\ \A k \in 1..Len(text) : ~IsInk(text[k]) => text[k] = " " /\ IsInk(text[k + 1])
    /\ Len(SelectSeq(text, IsInk)) = Len(text) => text = name

\* C7: populateSprintFilter leaves exactly the given names as options,
\* ascending by first embedded integer (-1 without digits), equal integers in
\* their original order, and the last option selected when there is one.
C7_SprintOptionsSorted ==
    pc = "doneSprintFilter" =>
        /\ Len(sprintOptions) = Len(arg)
        /\ {sprintOptions[i].value : i \in 1..Len(sprintOptions)}
             = {arg[i] : i \in 1..Len(arg)}
        /\ \A i \in 1..Len(sprintOptions) :
             LabelOf(sprintOptions[i].value, sprintOptions[i].text)
        /\ \A i, j \in 1..Len(sprintOptions) :
             i < j =>
               LET a == sprintOptions[i].value
                   b == sprintOptions[j].value
               IN /\ FirstEmbeddedInteger(a) <= FirstEmbeddedInteger(b)
                  /\ FirstEmbeddedInteger(a) = FirstEmbeddedInteger(b)
                       => PositionIn(arg, a) < PositionIn(arg, b)
        /\ arg # <<>> => sprintSelected = Len(sprintOptions)
        /\ arg = <<>> => sprintSelected = 0

\* "12", "S1", "1" came out as "S1", "1", "12" with "12" selected: numeric
\* order, and the tie of "S1" and "1" in insertion order
C7_Witness ==
    /\ pc = "doneSprintFilter"
    /\ arg = <<<<"1", "2">>, <<"S", "1">>, <<"1">>>>
    /\ sprintOptions = <<OptionOf(<<"S", "1">>), OptionOf(<<"1">>),
                         OptionOf(<<"1", "2">>)>>
    /\ sprintSelected = 3

(***************************************************************************)
(* drawChart on every dates sequence and every pair of series, and on      *)
(* values of dailyPlannedHours that are no series (specification           *)
(* SpecDrawChart): arg holds dates, dailyPlannedHours and earnedHours of   *)
(* the record that is drawn.                                               *)
(***************************************************************************)
\* the double nearest to 1000/7, which JSON.parse gives for 142.85714285714286
ThousandSevenths == NumDiv(Num(1000), Num(7))

\* the values of a series entry: null, a negative number, 0, an integer and a
\* number that is not one.  239 / 7 is not a double, and seven times the
\* double nearest to it is not 239; 1.05 times ThousandSevenths is above 150
\* by less than the rounding of the product
SeriesValues == {JNull, Num(-5), Num(0), Num(239), ThousandSevenths}

SeriesSet == {Arr(q) : q \in SeqsUpTo(SeriesValues, MaxSeriesLen)}

\* earnedHours enters the chart as a series and through its largest value
EarnedValues == {JNull, Num(239), ThousandSevenths}

EarnedSet == {Arr(q) : q \in SeqsUpTo(EarnedValues, MaxSeriesLen)}

\* values of dailyPlannedHours that are not series of numbers though they
\* are truthy: an empty object, a number, an object with a length and a
\* final element of its own, an object whose length is {"toString": 1} or
\* 2.5, and arrays of true, of {} and of {"toString": 5}
NoSeries ==
    {EmptyObj, Num(5),
     Dataset(<<Entry(<<"l", "e", "n", "g", "t", "h">>, Num(2)),
               Entry(<<"1">>, Num(239))>>),
     Dataset(<<Entry(<<"l", "e", "n", "g", "t", "h">>,
                     Dataset(<<Entry(<<"t", "o", "S", "t", "r", "i", "n", "g">>, Num(1))>>))>>),
     Dataset(<<Entry(<<"l", "e", "n", "g", "t", "h">>, Rat(5, 2))>>),
     Arr(<<Bool(TRUE)>>), Arr(<<EmptyObj>>),
     Arr(<<Dataset(<<Entry(<<"t", "o", "S", "t", "r", "i", "n", "g">>, Num(5))>>)>>)}

DateLists == {Arr([i \in 1..n |-> <<"day", i>>]) : n \in 0..MaxDates}

InitDrawChart ==
    /\ InitDom
    /\ pc = "callDrawChart"
    /\ arg \in [dates : DateLists,
                dailyPlannedHours : SeriesSet \cup {Undef} \cup NoSeries,
                earnedHours : EarnedSet]

DrawnRecord ==
    Dataset(<<Prop("dates", arg.dates),
         Prop("charts", Dataset(<<Entry(Overall,
                           Dataset(<<Prop("earnedHours", arg.earnedHours),
                                Prop("actualCost", arg.earnedHours),
                                Prop("dailyPlannedHours", arg.dailyPlannedHours)>>))>>))>>)

CallDrawChart ==
    /\ pc = "callDrawChart"
    /\ Commit(drawChart(World, DrawnRecord, Overall, <<"Burn-Up: ">>, TRUE))
    /\ pc' = "doneDrawChart"
    /\ UNCHANGED arg

NextDrawChart == CallDrawChart

SpecDrawChart == InitDrawChart /\ [][NextDrawChart]_vars

\* dailyPlannedHours is absent or a sequence of numbers and nulls
PlannedIsSeries ==
    \/ arg.dailyPlannedHours.tag = "undefined"
    \/ /\ arg.dailyPlannedHours.tag = "array"
       /\ \A i \in 1..Len(arg.dailyPlannedHours.v) :
             arg.dailyPlannedHours.v[i].tag \in {"number", "null"}

\* the data of the "Ideal Burn-up" dataset of the chart that was drawn
DrawnIdeal == instances[burnupChart].config.data.datasets[4].data.v

\* the final element of dailyPlannedHours as a number, 0 when the series is
\* empty or absent
LastPlanned ==
    LET d == arg.dailyPlannedHours
    IN IF d.tag # "array" \/ Len(d.v) = 0 THEN Num(0) ELSE ToNumber(d.v[Len(d.v)])

\* a * 2^ea <= b * 2^eb for natural numbers a and b held as limbs
ScaledLeq(a, ea, b, eb) ==
    LET e == IF ea < eb THEN ea ELSE eb
    IN ~BigLess(BigShl(b, eb - e), BigShl(a, ea - e))

\* v * k = x * j in exact arithmetic, for doubles v and x and natural
\* numbers k and j
ExactlyProportional(v, k, x, j) ==
    LET lhs == BigMul(Mant(v), BigFromNat(k))
        rhs == BigMul(Mant(x), BigFromNat(j))
    IN /\ ScaledLeq(lhs, Expo(v), rhs, Expo(x))
       /\ ScaledLeq(rhs, Expo(x), lhs, Expo(v))
       /\ lhs # <<>> => Sign(v) = Sign(x)

\* C8: for dailyPlannedHours a sequence of numbers and nulls, or absent,
\* the ideal burn-up series has the length N of dates; for N <= 1 every
\* value is 0; for N >= 2 the value at index i satisfies
\* value * (N - 1) = lastPlanned * i (indices from 0), so that it starts at 0
\* and ends at lastPlanned.
C8_IdealBurnupLinear ==
    pc = "doneDrawChart" /\ PlannedIsSeries =>
        LET n == Len(arg.dates.v)
        IN /\ burnupChart # 0
           /\ instances[burnupChart].config.data.datasets[4].label = "Ideal Burn-up"
           /\ Len(DrawnIdeal) = n
           /\ n <= 1 => \A i \in 1..n : DrawnIdeal[i] = Num(0)
           /\ n >= 2 => \A i \in 1..n :
                /\ DrawnIdeal[i].tag = "number"
                /\ ExactlyProportional(DrawnIdeal[i], n - 1, LastPlanned, i - 1)
           /\ n >= 2 => DrawnIdeal[1] = Num(0) /\ DrawnIdeal[n] = LastPlanned

\* |v * k - x * j| <= |x * j| / 2^51 in exact arithmetic
NearlyProportional(v, k, x, j) ==
    LET lhs == BigMul(Mant(v), BigFromNat(k))
        rhs == BigMul(Mant(x), BigFromNat(j))
        e == IF Expo(v) < Expo(x) THEN Expo(v) ELSE Expo(x)
        a == BigShl(lhs, Expo(v) - e)
        b == BigShl(rhs, Expo(x) - e)
        diff == IF BigLess(a, b) THEN BigSub(b, a) ELSE BigSub(a, b)
    IN /\ ~BigLess(b, BigShl(diff, 51))
       /\ lhs # <<>> => Sign(v) = Sign(x)

\* C8 as amended: for dailyPlannedHours a sequence of numbers and nulls, or
\* absent, the ideal burn-up series has the length N of dates; for
\* N <= 1 every value is 0; for N >= 2 the value at index i is the product in
\* doubles of i and the quotient in doubles lastPlanned / (N - 1), so that
\* value * (N - 1) differs from lastPlanned * i by at most
\* |lastPlanned * i| / 2^51; the series starts at 0 and ends within that
\* distance of lastPlanned.
C8_IdealBurnupNearlyLinear ==
    pc = "doneDrawChart" /\ PlannedIsSeries =>
        LET n == Len(arg.dates.v)
        IN /\ burnupChart # 0
           /\ instances[burnupChart].config.data.datasets[4].label = "Ideal Burn-up"
           /\ Len(DrawnIdeal) = n
           /\ n <= 1 => \A i \in 1..n : DrawnIdeal[i] = Num(0)
           /\ n >= 2 => \A i \in 1..n :
                /\ DrawnIdeal[i].tag = "number"
                /\ NearlyProportional(DrawnIdeal[i], n - 1, LastPlanned, i - 1)
           /\ n >= 2 => DrawnIdeal[1] = Num(0)

\* eight dates and a final planned value of 239: the series ends in the
\* double next above 239
C8_EndsAboveLastPlanned ==
    /\ pc = "doneDrawChart"
    /\ Len(arg.dates.v) = 8
    /\ arg.dailyPlannedHours = Arr(<<Num(0), Num(239)>>)
    /\ DrawnIdeal[8] # Num(239)
    /\ ~NumLess(DrawnIdeal[8], Num(239))

\* the non-null values of both series, and 0
AxisCandidates ==
    {Num(0)} \cup {y \in {arg.earnedHours.v[i] : i \in 1..Len(arg.earnedHours.v)}
                        \cup (IF arg.dailyPlannedHours.tag = "array"
                              THEN {arg.dailyPlannedHours.v[i] :
                                      i \in 1..Len(arg.dailyPlannedHours.v)}
                              ELSE {}) :
                    y.tag = "number"}

\* the largest of them
AxisMax == CHOOSE m \in AxisCandidates : \A x \in AxisCandidates : ~NumLess(m, x)

\* 1.05 * m * f <= t * 2^s in exact arithmetic, for a double m >= 0, an
\* integer t and natural numbers f (held as limbs) and s
HeadroomAtMost(m, f, t, s) ==
    /\ t >= 0
    /\ ScaledLeq(BigMul(BigMulSmall(Mant(m), 105), f), Expo(m),
                 BigFromNat(t * 100), s)

\* y is the smallest multiple of 50 with 1.05 * m <= y
SmallestMultipleAbove(y, m) ==
    /\ y % 50 = 0
    /\ HeadroomAtMost(m, <<1>>, y, 0)
    /\ ~HeadroomAtMost(m, <<1>>, y - 50, 0)

\* C9: for series of numbers and nulls (the planned one may be absent),
\* the y-axis upper bound drawChart computes is the smallest multiple of
\* 50 that is at least 1.05 * M, M the largest non-null value of the two
\* series and at least 0.
C9_YAxisTopRoundsUp ==
    pc = "doneDrawChart" /\ PlannedIsSeries =>
        LET y == locals.yAxisTop
        IN /\ y.tag = "number"
           /\ IsRat(y)
           /\ y.den = 1
           /\ SmallestMultipleAbove(y.num, AxisMax)

TwoTo51 == BigShl(<<1>>, 51)

\* y is a multiple of 50 with 1.05 * m * (1 - 1/2^51) <= y and
\* y - 50 < 1.05 * m * (1 + 1/2^51)
NearlySmallestMultipleAbove(y, m) ==
    /\ y % 50 = 0
    /\ HeadroomAtMost(m, BigSub(TwoTo51, <<1>>), y, 51)
    /\ ~HeadroomAtMost(m, BigAdd(TwoTo51, <<1>>), y - 50, 51)

\* C9 as amended: for series of numbers and nulls (the planned one may be
\* absent), the y-axis upper bound is 50 times the ceiling of the
\* double M * 1.05 / 50, M as above: a multiple of 50 that is the smallest
\* one at least 1.05 * M when M is an integer, and for every M the smallest
\* one at least 1.05 * M up to a relative error of 1/2^51 in 1.05 * M.
C9_YAxisTopRoundsUpInDoubles ==
    pc = "doneDrawChart" /\ PlannedIsSeries =>
        LET y == locals.yAxisTop
            m == AxisMax
        IN /\ y.tag = "number"
           /\ IsRat(y)
           /\ y.den = 1
           /\ NearlySmallestMultipleAbove(y.num, m)
           /\ IsRat(m) /\ m.den = 1 => SmallestMultipleAbove(y.num, m)

\* a maximum of 1000/7 as a double (beside a null and a negative number)
\* gives 150, although 1.05 times that double is above 150
C9_Witness ==
    /\ pc = "doneDrawChart"
    /\ arg.earnedHours = Arr(<<JNull, ThousandSevenths>>)
    /\ arg.dailyPlannedHours = Arr(<<Num(-5)>>)
    /\ locals.yAxisTop = Num(150)
    /\ ~HeadroomAtMost(AxisMax, <<1>>, 150, 0)

\* a maximum of 239 gives 300, since 250 < 250.95
C9_IntegerMaximum ==
    /\ pc = "doneDrawChart"
    /\ arg.earnedHours = Arr(<<JNull, Num(239)>>)
    /\ arg.dailyPlannedHours = Arr(<<ThousandSevenths>>)
    /\ locals.yAxisTop = Num(300)

(***************************************************************************)
(* The user filter (specification SpecUsers): the dashboard, and beside it *)
(* populateUserFilter called on every users argument from every state the  *)
(* user filter can be in; there arg is the users argument.                 *)
(***************************************************************************)
\* alice, bob, a user whose name holds two blanks in a row and a user whose
\* name is empty
UserNames == {Alice, Bob, <<"A", "l", " ", " ", "S", "m", "i", "t", "h">>, <<>>}

UserLists == SeqsUpTo(UserNames, MaxUsers)

\* the user filter is empty before the first render; afterwards it holds the
\* sentinel and the users of some record, with any of them selected
InitUserCall ==
    /\ pc = "callUserFilter"
    /\ arg \in {Arr(q) : q \in UserLists} \cup {Undef}
    /\ fullData = JNull
    /\ viewValue = "sprint"
    /\ sprintControls = "flex"
    /\ sprintOptions = <<>>
    /\ sprintSelected = 0
    /\ \/ userOptions = <<>> /\ userSelected = 0
       \/ \E prev \in UserLists :
            /\ userOptions = <<OverallOption>> \o
                               [i \in 1..Len(prev) |-> OptionOf(prev[i])]
            /\ userSelected \in 1..(Len(prev) + 1)
    /\ instances = <<>>
    /\ burnupChart = 0
    /\ log = <<>>
    /\ listeners = {}
    /\ container = "canvas"
    /\ threw = FALSE
    /\ locals = NoLocals

CallPopulateUserFilter ==
    /\ pc = "callUserFilter"
    /\ Commit(populateUserFilter(World, arg))
    /\ pc' = "doneUserFilter"
    /\ UNCHANGED arg

InitUsers == Init \/ InitUserCall

NextUsers == Next \/ CallPopulateUserFilter

SpecUsers == InitUsers /\ [][NextUsers]_vars

\* the users a JSON value lists
Listed(users) == IF users.tag = "array" THEN {users.v[i] : i \in 1..Len(users.v)} ELSE {}

\* key k stays selected when it is the sentinel or listed, else the sentinel is
Preserved(k, users) ==
    SelectedUser' = IF k = Overall \/ k \in Listed(users) THEN k ELSE Overall

\* populateUserFilter keeps or resets the selected key
UserFilterCallPreserves ==
    (pc = "callUserFilter" /\ pc' = "doneUserFilter") => Preserved(SelectedUser, arg)

\* a handled change of the sprint filter to option i while a user is selected
SprintChangeTo(i) ==
    /\ pc = "ready"
    /\ userSelected # 0
    /\ sprintControls # "none"
    /\ i \in 1..Len(sprintOptions)
    /\ SelectSprint(i)

\* C10 as stated: populateUserFilter keeps the selected key k when k is
\* "overall" or occurs in users and selects "overall" otherwise; and every
\* sprint change keeps the selected user if the new sprint lists it and falls
\* back to "overall" if it does not.
C10_SelectionPreserved ==
    /\ [][UserFilterCallPreserves]_vars
    /\ [][\A i \in 1..Len(sprintOptions) :
            SprintChangeTo(i) =>
              Preserved(SelectedUser,
                        Get(Lookup(fullData, sprintOptions[i].value), "users"))]_vars

\* C10 amended: as above for every sprint change to a sprint whose name is
\* not empty and whose value in the dataset is truthy; a change to a sprint
\* whose name is empty or whose value is falsy leaves the user filter,
\* options and selection, as it was.
C10_SelectionPreservedWithRecord ==
    /\ [][UserFilterCallPreserves]_vars
    /\ [][\A i \in 1..Len(sprintOptions) :
            SprintChangeTo(i) =>
              LET name == sprintOptions[i].value
                  rec == Lookup(fullData, name)
              IN IF name # <<>> /\ Truthy(rec)
                 THEN Preserved(SelectedUser, Get(rec, "users"))
                 ELSE /\ userOptions' = userOptions
                      /\ userSelected' = userSelected]_vars

\* alice is selected among overall, bob, alice: the call restored the key
C10_Witness ==
    /\ pc = "doneUserFilter"
    /\ arg = Arr(<<Bob, Alice>>)
    /\ userOptions = <<OverallOption, OptionOf(Bob), OptionOf(Alice)>>
    /\ SelectedUser = Alice

(***************************************************************************)
(* Re-rendering and frame properties of the dashboard (specification Spec) *)
(***************************************************************************)
\* the configurations of the charts that are live, in construction order
LiveConfigs ==
    [n \in 1..Len(instances) |->
        IF instances[n].live THEN <<instances[n].config>> ELSE <<>>]

\* a handled sprint-change event that re-selects the selected sprint
ReselectSprint ==
    /\ pc = "ready"
    /\ "sprintFilter" \in listeners
    /\ sprintSelected # 0
    /\ SelectSprint(sprintSelected)

\* a handled user-change event that re-selects the selected user
ReselectUser ==
    /\ pc = "ready"
    /\ "userFilter" \in listeners
    /\ userSelected # 0
    /\ SelectUser(userSelected)

\* C11: handling a sprint-change or user-change event again with the same
\* selected sprint and user leaves the user filter's options, the selected
\* user and the configuration of the chart as the previous render left them.
C11_RenderIdempotent ==
    [][(ReselectSprint \/ ReselectUser) =>
          /\ userOptions' = userOptions
          /\ SelectedUser' = SelectedUser
          /\ SelectedSprint' = SelectedSprint
          /\ LiveConfigs' = LiveConfigs]_vars

\* the chart of sprint 1 and alice is live after a render in the sprint view,
\* where both re-selections are enabled
C11_Witness ==
    /\ pc = "ready"
    /\ sprintControls = "flex"
    /\ SelectedSprint = SprintName(1)
    /\ SelectedUser = Alice
    /\ {"sprintFilter", "userFilter"} \subseteq listeners
    /\ LiveChartForSelection

\* a handled change of the view selector to v
ViewChangeTo(v) ==
    /\ pc = "ready"
    /\ "viewSelector" \in listeners
    /\ SelectView(v)

\* C12: a switch of the view to ev_pv leaves the options and the selection of
\* the sprint filter and of the user filter as they were, and the switch back
\* to the sprint view keeps them too and renders the chart of that sprint and
\* user when they have a bundle.
C12_EvPvKeepsSprintState ==
    /\ [][ViewChangeTo("ev_pv") =>
            /\ sprintOptions' = sprintOptions
            /\ sprintSelected' = sprintSelected
            /\ userOptions' = userOptions
            /\ userSelected' = userSelected]_vars
    /\ [][(ViewChangeTo("sprint") /\ viewValue = "ev_pv" /\ userSelected # 0) =>
            /\ sprintOptions' = sprintOptions
            /\ SelectedSprint' = SelectedSprint
            /\ SelectedUser' = SelectedUser
            /\ SelectionHasData' => LiveChartForSelection']_vars

\* the switch to ev_pv alone: both filters are as they were
C12_EvPvSwitchKeepsFilters ==
    [][ViewChangeTo("ev_pv") =>
          /\ sprintOptions' = sprintOptions
          /\ sprintSelected' = sprintSelected
          /\ userOptions' = userOptions
          /\ userSelected' = userSelected]_vars

\* a handled change of the sprint filter to option i
HandledSprintChange(i) ==
    /\ pc = "ready"
    /\ "sprintFilter" \in listeners
    /\ SelectSprint(i)

\* a handled change of the user filter to option j
HandledUserChange(j) ==
    /\ pc = "ready"
    /\ "userFilter" \in listeners
    /\ SelectUser(j)

\* what a sprint or user change leaves alone
RenderOnlyFrame ==
    /\ fullData' = fullData
    /\ sprintOptions' = sprintOptions
    /\ listeners' = listeners
    /\ viewValue' = viewValue
    /\ container' = container

\* C13: a sprint-change or user-change event only renders: the dataset, the
\* sprint filter's options and the listeners stay as they are, the selected
\* sprint is the one the user picked (a user change leaves it alone), and the
\* dataset in state.fullData always is the document loaded at initialization.
C13_ChangeOnlyRenders ==
    /\ [](pc = "ready" => fullData = arg.body)
    /\ [][\A i \in 1..Len(sprintOptions) :
            HandledSprintChange(i) => (RenderOnlyFrame /\ sprintSelected' = i)]_vars
    /\ [][\A j \in 1..Len(userOptions) :
            HandledUserChange(j) =>
                (RenderOnlyFrame /\ sprintSelected' = sprintSelected)]_vars

\* sprint 1 is selected although sprint 2 exists, and alice's chart is live:
\* a sprint change and a user change have been handled
C13_Witness ==
    /\ pc = "ready"
    /\ Len(sprintOptions) = 2
    /\ sprintSelected = 1
    /\ SelectedUser = Alice
    /\ LiveChartForSelection
    /\ fullData = arg.body

\* C14: once initialization has succeeded, and after every view change, the
\* sprint/user filter controls are displayed exactly when the view selector's
\* value is not ev_pv.
C14_ControlsFollowView ==
    pc = "ready" =>
        /\ viewValue = "ev_pv" => sprintControls = "none"
        /\ viewValue # "ev_pv" => sprintControls = "flex"

\* the EV/PV view was entered from a rendered sprint view and hid the controls
C14_Witness ==
    /\ pc = "ready"
    /\ viewValue = "ev_pv"
    /\ sprintControls = "none"
    /\ userSelected # 0

\* the step in which a successful initialization ends, in the sprint view, on
\* a document with at least one sprint key
InitEndsInSprintView ==
    /\ pc = "parsing"
    /\ pc' = "ready"
    /\ viewValue # "ev_pv"
    /\ FilterReserved(Keys(arg.body)) # <<>>

\* the selected sprint carries the highest number of all sprint keys
HighestSprintSelected ==
    /\ sprintSelected # 0
    /\ \A i \in 1..Len(sprintOptions) :
         FirstEmbeddedInteger(sprintOptions[i].value)
           <= FirstEmbeddedInteger(SelectedSprint)

\* the selected user is the sentinel, labelled "Overall Team"
OverallSelected ==
    /\ userSelected # 0
    /\ userOptions[userSelected] = [value |-> Overall, text |-> OverallTeam]

\* the live chart is the burn-up chart of the selected sprint's overall bundle
OverallBurnupLive ==
    LET rec == Lookup(fullData, SelectedSprint)
        bundle == Lookup(Get(rec, "charts"), Overall)
    IN /\ burnupChart # 0
       /\ instances[burnupChart].live
       /\ LET cfg == instances[burnupChart].config
          IN /\ cfg.options.plugins.title.text
                  = <<"Burn-Up: ", SelectedSprint, " - ", OverallTeam>>
             /\ cfg.data.labels = Get(rec, "dates")
             /\ Len(cfg.data.datasets) = 4
             /\ cfg.data.datasets[1].data = Get(bundle, "earnedHours")
             /\ cfg.data.datasets[2].data = Get(bundle, "actualCost")
             /\ cfg.data.datasets[3].data = Get(bundle, "dailyPlannedHours")

\* C15 as stated: a successful initialization in the sprint view on a dataset
\* with a sprint key ends with the highest-numbered sprint selected, the user
\* "overall" selected and the burn-up chart of that sprint's overall bundle
\* live.
C15_InitialSelection ==
    [][InitEndsInSprintView =>
          (HighestSprintSelected' /\ OverallSelected' /\ OverallBurnupLive')]_vars

(***************************************************************************)
(* Further properties of populateUserFilter (specification SpecUsers).     *)
(***************************************************************************)
\* the users argument as a sequence: undefined stands for no users
GivenUsers == IF arg.tag = "array" THEN arg.v ELSE <<>>

\* C16: after populateUserFilter the options are the sentinel ("overall",
\* "Overall Team") followed by one option per given user in the given order,
\* the sentinel alone for an empty or undefined argument, and one of the
\* options is selected, so that the selector has a value.
C16_UserOptionsSentinelFirst ==
    pc = "doneUserFilter" =>
        /\ Len(userOptions) = Len(GivenUsers) + 1
        /\ userOptions[1] = [value |-> Overall, text |-> OverallTeam]
        /\ \A i \in 1..Len(GivenUsers) :
             /\ userOptions[i + 1].value = GivenUsers[i]
             /\ LabelOf(GivenUsers[i], userOptions[i + 1].text)
        /\ userSelected \in 1..Len(userOptions)
        /\ SelectedUser # <<>>

\* C16 amended: as above, and one of the options is selected; the selected
\* value is not the empty string unless a given user has the empty name.
C16_UserOptionsSentinelFirstSelected ==
    pc = "doneUserFilter" =>
        /\ Len(userOptions) = Len(GivenUsers) + 1
        /\ userOptions[1] = [value |-> Overall, text |-> OverallTeam]
        /\ \A i \in 1..Len(GivenUsers) :
             /\ userOptions[i + 1].value = GivenUsers[i]
             /\ LabelOf(GivenUsers[i], userOptions[i + 1].text)
        /\ userSelected \in 1..Len(userOptions)
        /\ SelectedUser = <<>> => \E i \in 1..Len(GivenUsers) : GivenUsers[i] = <<>>

\* called on bob and a user with the empty name: the selector holds the
\* sentinel and both, and the user with the empty name is selected
C16_Witness ==
    /\ pc = "doneUserFilter"
    /\ arg = Arr(<<Bob, <<>>>>)
    /\ userOptions = <<OverallOption, OptionOf(Bob), OptionOf(<<>>)>>
    /\ userSelected = 3

(***************************************************************************)
(* The configurations of the charts (specification Spec).                  *)
(***************************************************************************)
\* the record a configuration was drawn from, told by its title
RecordOfConfig(cfg) ==
    LET title == cfg.options.plugins.title.text
    IN IF title = EvPvTitle THEN Lookup(fullData, EvPv)
       ELSE Lookup(fullData, title[2])

\* the y-axis label each mode supplies
AxisLabelOfConfig(cfg) ==
    IF cfg.options.plugins.title.text = EvPvTitle
    THEN "Cumulative Story Points" ELSE "Hours"

\* an axis of the options carries a displayed title
AxisTitled(axis) == "title" \in DOMAIN axis /\ axis.title.display

\* C17: every chart configuration, burn-up or EV/PV, is a line chart whose
\* labels are the record's dates, with one linear y-axis from 0 titled with
\* the supplied axis label, a titled x-axis, and index-mode tooltips that do
\* not require intersection.
C17_SharedChartShape ==
    \A n \in 1..Len(instances) :
        LET cfg == instances[n].config
        IN /\ cfg.type = "line"
           /\ cfg.data.labels = Get(RecordOfConfig(cfg), "dates")
           /\ DOMAIN cfg.options.scales = {"x", "y"}
           /\ cfg.options.scales.y.type = "linear"
           /\ cfg.options.scales.y.min = 0
           /\ AxisTitled(cfg.options.scales.y)
           /\ cfg.options.scales.y.title.text = AxisLabelOfConfig(cfg)
           /\ AxisTitled(cfg.options.scales.x)
           /\ cfg.options.interaction = [mode |-> "index", intersect |-> FALSE]

\* the shape without the x-axis title
C17_ShapeExceptXTitle ==
    \A n \in 1..Len(instances) :
        LET cfg == instances[n].config
        IN /\ cfg.type = "line"
           /\ cfg.data.labels = Get(RecordOfConfig(cfg), "dates")
           /\ DOMAIN cfg.options.scales = {"x", "y"}
           /\ cfg.options.scales.y.type = "linear"
           /\ cfg.options.scales.y.min = 0
           /\ AxisTitled(cfg.options.scales.y)
           /\ cfg.options.scales.y.title.text = AxisLabelOfConfig(cfg)
           /\ cfg.options.interaction = [mode |-> "index", intersect |-> FALSE]

(***************************************************************************)
(* The chart reference and what the live chart shows (specification Spec). *)
(***************************************************************************)
\* C18: a non-null state.burnupChart refers to an instance that has not been
\* destroyed, and neither destroy() nor clear() has been called on an
\* instance that was destroyed already.
C18_NoStaleChartReference ==
    /\ burnupChart # 0 => instances[burnupChart].live
    /\ \A n \in 1..Len(instances) : ~instances[n].usedAfterDestroy

\* the title of the chart the controls ask for
TitleForControls ==
    IF viewValue = "ev_pv" THEN EvPvTitle
    ELSE <<"Burn-Up: ", SelectedSprint, " - ",
           IF userSelected = 0 THEN <<>> ELSE userOptions[userSelected].text>>

\* C19: after every handled event a chart that is live is the EV/PV chart in
\* the ev_pv view and the burn-up chart of the selected sprint and user in
\* the sprint view.
C19_LiveChartMatchesControls ==
    pc = "ready" =>
        \A n \in LiveCharts :
            instances[n].config.options.plugins.title.text = TitleForControls

(***************************************************************************)
(* Initialization and the change listeners (specification Spec).           *)
(***************************************************************************)
\* a change of a control while the dashboard is not initialised: the fetch is
\* pending, the document is being parsed, or the initialization has failed
ChangeWhileNotReady == pc # "ready" /\ pc' = pc

\* C20: the change listeners exist only once the fetch has succeeded on a
\* non-empty document and the first render is done; a control change before
\* that, or after a failed initialization, runs no handler (it changes the
\* control's value only); and the first render takes the view selector's
\* value as it is when the document arrives.
C20_HandlersNeedLoadedData ==
    /\ [](listeners # {} =>
            /\ listeners = AllListeners
            /\ pc = "ready"
            /\ arg.kind = "ok"
            /\ fullData = arg.body
            /\ fullData.tag = "object"
            /\ Len(Keys(fullData)) > 0)
    /\ [][ChangeWhileNotReady =>
            /\ UNCHANGED <<fullData, sprintControls, sprintOptions, userOptions,
                           instances, burnupChart, listeners, container>>
            /\ log' = <<>>
            /\ ~threw']_vars
    /\ [][(pc = "parsing" /\ pc' = "ready") =>
            /\ viewValue' = viewValue
            /\ listeners = {}
            /\ sprintControls' = IF viewValue = "ev_pv" THEN "none" ELSE "flex"]_vars

\* the view selector was set to ev_pv while the fetch was pending: no handler
\* has run, the controls are as the page loaded them
C20_Witness ==
    /\ pc = "parsing"
    /\ viewValue = "ev_pv"
    /\ sprintControls = ""
    /\ listeners = {}
    /\ fullData = JNull

(***************************************************************************)
(* The selections stay within the dataset (specification Spec).            *)
(***************************************************************************)
\* the dashboard is initialised on a dataset with at least one sprint key
ReadyWithSprints ==
    pc = "ready" /\ FilterReserved(Keys(fullData)) # <<>>

\* the selected sprint is a key of the dataset other than "All Time", "EV/PV"
SprintKeySelected ==
    /\ sprintSelected \in 1..Len(sprintOptions)
    /\ \E k \in 1..Len(Keys(fullData)) : Keys(fullData)[k] = SelectedSprint
    /\ SelectedSprint # AllTime
    /\ SelectedSprint # EvPv

\* the users entry of the selected sprint's record
SelectedSprintUsers == Get(Lookup(fullData, SelectedSprint), "users")

\* "overall" followed by the users listed
UserOptionsFor(users) ==
    <<OverallOption>> \o
    (IF users.tag = "array"
     THEN [i \in 1..Len(users.v) |-> OptionOf(users.v[i])]
     ELSE <<>>)

\* the user filter holds "overall" and the users of the selected sprint
UserFilterOfSelectedSprint == userOptions = UserOptionsFor(SelectedSprintUsers)

\* the selected user is "overall" or a listed user of the selected sprint
UserOfSelectedSprint ==
    /\ userSelected \in 1..Len(userOptions)
    /\ SelectedUser \in {Overall} \cup Listed(SelectedSprintUsers)

\* C21 as stated: once initialised on a dataset with a sprint key, the
\* selected sprint is always a non-reserved key of the dataset; in the sprint
\* view (every state of it follows a sprint-view render) the user filter holds
\* exactly "overall" followed by the users of the selected sprint; and a
\* selected user is always "overall" or a listed user of the selected sprint.
C21_SelectionsWithinData ==
    ReadyWithSprints =>
        /\ SprintKeySelected
        /\ (InSprintView => UserFilterOfSelectedSprint)
        /\ (userOptions # <<>> => UserOfSelectedSprint)

\* C21 amended: the selected sprint is always a non-reserved key of the
\* dataset; after a sprint-view render on a selected sprint whose name is not
\* empty and whose value in the dataset is truthy, the user filter holds
\* exactly "overall" followed by that sprint's users and the selected user is
\* "overall" or one of them; a sprint-view render on a selected sprint whose
\* name is empty or whose value is falsy leaves the options of the user
\* filter as they were.
C21_SelectionsWithinDataWithRecord ==
    /\ [](ReadyWithSprints =>
            /\ SprintKeySelected
            /\ (InSprintView /\ ~SprintMissing =>
                    UserFilterOfSelectedSprint /\ UserOfSelectedSprint)
            /\ (userOptions # <<>> /\ ~SprintMissing =>
                    UserFilterOfSelectedSprint /\ UserOfSelectedSprint)
            /\ (userOptions # <<>> => userSelected \in 1..Len(userOptions)))
    /\ [][(pc' = "ready" /\ viewValue' # "ev_pv" /\ SprintMissing') =>
              userOptions' = userOptions]_vars

\* bob is selected on sprint 2, which lists alice and bob, after sprint 1,
\* which lists bob alone, was rendered
C21_Witness ==
    /\ ReadyWithSprints
    /\ InSprintView
    /\ SelectedSprint = SprintName(2)
    /\ SelectedSprintUsers = Arr(<<Alice, Bob>>)
    /\ Get(Lookup(fullData, SprintName(1)), "users") = Arr(<<Bob>>)
    /\ userOptions = <<OverallOption, OptionOf(Alice), OptionOf(Bob)>>
    /\ SelectedUser = Bob

====
